---------------------------- MODULE Spec2Model ----------------------------
(***************************************************************************)
(* Model of the monads library (Either / Maybe / Effect / State).          *)
(*                                                                         *)
(* The repository ships the same library three times:                      *)
(*   "nomod1"  src/src/monads_no_module.js lines    1-1180                  *)
(*   "nomod2"  src/src/monads_no_module.js lines 1182-2398                  *)
(*   "module"  src/unnamed/part_001                                         *)
(* The variable `variant` says which build a behaviour runs.               *)
(*                                                                         *)
(* A behaviour is a client session: it creates one container, derives new  *)
(* instances from it (map / chain / catch / ...), each from the latest     *)
(* one, and calls the entry points (run / fold / runIter / ...) of the     *)
(* latest instance.  User functions are drawn from a small catalogue;      *)
(* every invocation of a user function is logged.                          *)
(***************************************************************************)
EXTENDS Integers, Sequences, FiniteSets, TLC

\* Most composition steps alive in one session: instances derived with
\* map / chain / catch plus entries queued with mapIter / chainIter.
MaxSteps == 2

--------------------------------------------------------------------------
(* Values.  Every JavaScript value is a record [k, n, m, p]:               *)
(*   k kind, n number / allocation id, m label, p payload sequence.        *)

Val(k, n, m, p) == [k |-> k, n |-> n, m |-> m, p |-> p]

Num(n)    == Val("number", n, "", <<>>)
Undefined == Val("undefined", 0, "", <<>>)
Null      == Val("null", 0, "", <<>>)
NaN       == Val("NaN", 0, "", <<>>)
\* A string produced by coercing an object; its content is not tracked.
Str       == Val("string", 0, "", <<>>)
\* The empty string "", and the booleans.
EmptyStr  == Val("string", 0, "empty", <<>>)
Bool(b)   == Val("boolean", IF b THEN 1 ELSE 0, "", <<>>)
\* Whether `if (v)` takes the branch.
Truthy(v) ==
    ~ \/ v.k \in {"undefined", "null", "NaN"}
      \/ v.k \in {"number", "boolean"} /\ v.n = 0
      \/ v = EmptyStr
\* A user function, by name.
Fn(m)     == Val("function", 0, m, <<>>)
\* new Error(m): an ordinary application error.
Error(m)  == Val("Error", 0, m, <<>>)
\* [a, b]: the pair a State transition returns.
Pair(a, b) == Val("pair", 0, "", <<a, b>>)
\* A promise that settles as `how` ("resolved" / "rejected") with v, after
\* the user function invocations `later` (which happen once the call that
\* returned the promise is over).
Settled(how, v, later) == Val("Promise", 0, how, <<v, Val("log", 0, "", later)>>)
\* The promise an async user function returns: resolved with v.
Promise(v) == Settled("resolved", v, <<>>)

\* src: class MonadError; m names the method that raised it.
MonadError(m) == Val("MonadError", 0, m, <<>>)

\* The four simple containers.  m is the allocation site and stands for
\* reference identity: "lib" for an object the library itself allocates,
\* otherwise the name of the user function that allocated it.
Success(v, site) == Val("Success", 0, site, <<v>>)
Fail(v, site)    == Val("Fail", 0, site, <<v>>)
Just(v, site)    == Val("Just", 0, site, <<v>>)
\* Nothing's constructor ignores its argument: super(undefined).
Nothing(site)    == Val("Nothing", 0, site, <<Undefined>>)

\* A lazy container made by user code: m names its stored function,
\* p[1] is the value that function closed over.
LazyEffect(m, x) == Val("Effect", 0, m, <<x>>)
LazyState(m, x)  == Val("State", 0, m, <<x>>)

\* Outcome of a call: returned value or thrown error, with the log of user
\* function invocations the call made, in order.
Ret(v, log)   == [t |-> "ret", v |-> v, log |-> log]
Throw(e, log) == [t |-> "throw", v |-> e, log |-> log]
\* One entry of that log: user function f was invoked with argument a.
Call(f, a)    == Val("call", 0, f, <<a>>)

--------------------------------------------------------------------------
(* Classification predicates and the unwrap routine.                       *)

\* const isMonadError = err => Boolean(err && err[E_BRAND])
isMonadError(e) == e.k = "MonadError"

isSMonad(v) == v.k \in {"Success", "Fail", "Just", "Nothing"}
isLMonad(v) == v.k \in {"Effect", "State"}
isMonad(v)  == isSMonad(v) \/ isLMonad(v)

\* isRight() is true for Success and Just, isHalt() for Fail and Nothing.
isRightSMonad(v) == v.k \in {"Success", "Just"}
isHaltSMonad(v)  == v.k \in {"Fail", "Nothing"}
\* const unwrapSMonad = m => m.result(), used on continuing containers only.
unwrapSMonad(v) == v.p[1]

isPromise(v) == v.k = "Promise"

\* x + n and x * n as JavaScript computes them on each kind of value.
Add(x, n) ==
    CASE x.k = "number"                -> Num(x.n + n)
      [] x.k = "null"                  -> Num(n)
      [] x.k \in {"undefined", "NaN"}  -> NaN
      [] OTHER                         -> Str
Mul(x, n) ==
    CASE x.k = "number"  -> Num(x.n * n)
      [] x.k = "null"    -> Num(0)
      [] OTHER           -> NaN

--------------------------------------------------------------------------
(* User code: the functions a client passes to the library.                *)

\* Step functions, by name: UserFn(f, x) is what f(x) does.
UserFn(f, x) ==
    CASE f = "inc"           -> Ret(Add(x, 1), <<Call(f, x)>>)
      [] f = "toJust"        -> Ret(Just(Add(x, 3), f), <<Call(f, x)>>)
      [] f = "toFail"        -> Ret(Fail(x, f), <<Call(f, x)>>)
      [] f = "toEffect"      -> Ret(LazyEffect("dbl", x), <<Call(f, x)>>)
      [] f = "toEffectJust"  -> Ret(LazyEffect("just", x), <<Call(f, x)>>)
      [] f = "toEffectAsync" -> Ret(LazyEffect("async", x), <<Call(f, x)>>)
      [] f = "toState"       -> Ret(LazyState("step", x), <<Call(f, x)>>)
      [] f = "toStateAsync"  -> Ret(LazyState("async", x), <<Call(f, x)>>)
      [] f = "toPromise"     -> Ret(Promise(x), <<Call(f, x)>>)
      [] f = "dbl"           -> Ret(Mul(x, 2), <<Call(f, x)>>)
      \* x => g(f(x)) for f, g among inc and dbl, named f-then-g
      [] f = "incInc"        -> Ret(Add(Add(x, 1), 1), <<Call(f, x)>>)
      [] f = "incDbl"        -> Ret(Mul(Add(x, 1), 2), <<Call(f, x)>>)
      [] f = "dblInc"        -> Ret(Add(Mul(x, 2), 1), <<Call(f, x)>>)
      [] f = "dblDbl"        -> Ret(Mul(Mul(x, 2), 2), <<Call(f, x)>>)
      \* x => Success.of(x) and x => Just.of(x)
      [] f = "ofSuccess"     -> Ret(Success(x, f), <<Call(f, x)>>)
      [] f = "ofJust"        -> Ret(Just(x, f), <<Call(f, x)>>)
      \* predicates: x => x === 0, () => 1, () => false
      [] f = "isZero"        -> Ret(Bool(x = Num(0)), <<Call(f, x)>>)
      [] f = "one"           -> Ret(Num(1), <<Call(f, x)>>)
      [] f = "never"         -> Ret(Bool(FALSE), <<Call(f, x)>>)
      [] f = "throwErr"      -> Throw(Error("boom"), <<Call(f, x)>>)
      \* x => Fail.of(x).result(): user code that breaks a contract itself
      [] f = "failResult"    -> Throw(MonadError("Fail.result"), <<Call(f, x)>>)

\* The zero-argument function stored in an Effect made by user code:
\*   "dbl"   () => x * 2          "just"  () => Just.of(x)
\*   "async" async () => x        "five"  () => 5
\*   "succ5" () => Success.of(5)  "fail"  () => Fail.of("e")
\*   "throw" () => { throw new Error("boom") }
\*   "viol"  () => Nothing.of().result()
Thunk(e) ==
    LET x == e.p[1]
        c == <<Call(e.m, Undefined)>>
    IN CASE e.m = "dbl"   -> Ret(Mul(x, 2), c)
         [] e.m = "just"  -> Ret(Just(x, "just"), c)
         [] e.m = "async" -> Ret(Promise(x), c)
         [] e.m = "five"  -> Ret(Num(5), c)
         [] e.m = "succ5" -> Ret(Success(Num(5), "succ5"), c)
         [] e.m = "fail"  -> Ret(Fail(Str, "fail"), c)
         \* () => Nothing.of() and () => Effect.of(() => 5)
         [] e.m = "none"  -> Ret(Nothing("none"), c)
         [] e.m = "lazy"  -> Ret(LazyEffect("five", Undefined), c)
         \* () => ++n and async () => ++n, x the value of n before the call
         [] e.m = "count"      -> Ret(Add(x, 1), c)
         [] e.m = "countAsync" -> Ret(Promise(Add(x, 1)), c)
         [] e.m = "throw" -> Throw(Error("boom"), c)
         [] e.m = "viol"  -> Throw(MonadError("Nothing.result"), c)
         \* static pure(val) { return new Effect(() => val) }
         [] e.m = "pure"  -> Ret(x, c)

\* The one-argument transition stored in a State made by user code:
\*   "step"  s => [x + 2, s * 10]     "async" async s => [x, s]
\*   "throw" s => { throw new Error("boom") }
\*   "pure"  state => [val, state]    "get" state => [state, state]
\*   "put"   _ => [null, newState]
Transition(e, s) ==
    LET x == e.p[1]
        c == <<Call(e.m, s)>>
    IN CASE e.m = "step"  -> Ret(Pair(Add(x, 2), Mul(s, 10)), c)
         [] e.m = "async" -> Ret(Promise(Pair(x, s)), c)
         [] e.m = "throw" -> Throw(Error("boom"), c)
         [] e.m = "pure"  -> Ret(Pair(x, s), c)
         [] e.m = "get"   -> Ret(Pair(s, s), c)
         [] e.m = "put"   -> Ret(Pair(Null, x), c)

--------------------------------------------------------------------------
(* The contract checks (panic... helpers).  Each is TRUE when the helper   *)
(* throws a MonadError.                                                    *)

panicOnPromise(value)         == isPromise(value)
panicIfNotFunction(value)     == value.k # "function"
panicOnChainViolation(value)  == ~isSMonad(value)
panicOnMapViolation(value)    == isMonad(value)
panicOnLazyMapViolation(value) == isLMonad(value)
\* !(value instanceof this.constructor); cls is the receiver's class
panicOnAnotherInstance(value, cls)  == value.k # cls
panicOnAnotherLazyMonad(value, cls) == isLMonad(value) /\ value.k # cls

\* r, an outcome, with the invocations `before` in front of its own.
After(before, r) == [r EXCEPT !.log = before \o r.log]

--------------------------------------------------------------------------
(* Effect, builds "nomod1" and "nomod2": the closures effectNew that map,  *)
(* chain and catch store in the new instance.  `up` is the outcome of      *)
(* this._value(), the receiver's stored computation.                       *)

\* Variant of the chain closure that hands the upstream value to func as
\* it is, container or not.
EffectChainNewNoUnwrap(up, func) ==
    IF up.t = "throw" THEN up
    ELSE IF panicOnPromise(up.v) THEN Throw(MonadError("Effect.chain"), up.log)
    ELSE IF isHaltSMonad(up.v) THEN up
    ELSE
      LET resultEff == After(up.log, UserFn(func, up.v))
      IN IF resultEff.t = "throw" THEN resultEff
         ELSE IF panicOnAnotherInstance(resultEff.v, "Effect")
              THEN Throw(MonadError("Effect.chain"), resultEff.log)
         ELSE
           LET result == After(resultEff.log, Thunk(resultEff.v))
           IN IF result.t = "throw" THEN result
              ELSE IF isRightSMonad(result.v)
                   THEN Ret(unwrapSMonad(result.v), result.log)
              ELSE result

EffectChainNew(up, func) ==
    IF up.t = "throw" THEN up
    ELSE IF panicOnPromise(up.v) THEN Throw(MonadError("Effect.chain"), up.log)
    ELSE IF isHaltSMonad(up.v) THEN up
    ELSE
      LET out == IF isRightSMonad(up.v) THEN unwrapSMonad(up.v) ELSE up.v
          resultEff == After(up.log, UserFn(func, out))
      IN IF resultEff.t = "throw" THEN resultEff
         ELSE IF panicOnAnotherInstance(resultEff.v, "Effect")
              THEN Throw(MonadError("Effect.chain"), resultEff.log)
         ELSE
           LET result == After(resultEff.log, Thunk(resultEff.v))
           IN IF result.t = "throw" THEN result
              ELSE IF isRightSMonad(result.v)
                   THEN Ret(unwrapSMonad(result.v), result.log)
              ELSE result

\* Variant of the map closure without the isHaltSMonad(out) early return.
EffectMapNewNoHalt(up, func) ==
    IF up.t = "throw" THEN up
    ELSE IF panicOnPromise(up.v) THEN Throw(MonadError("Effect.map"), up.log)
    ELSE
      LET out == IF isRightSMonad(up.v) THEN unwrapSMonad(up.v) ELSE up.v
          result == After(up.log, UserFn(func, out))
      IN IF result.t = "throw" THEN result
         ELSE IF panicOnPromise(result.v)
              THEN Throw(MonadError("Effect.map"), result.log)
         ELSE IF panicOnLazyMapViolation(result.v)
              THEN Throw(MonadError("Effect.map"), result.log)
         ELSE IF isRightSMonad(result.v)
              THEN Ret(unwrapSMonad(result.v), result.log)
         ELSE result

EffectMapNew(up, func) ==
    IF up.t = "throw" THEN up
    ELSE IF panicOnPromise(up.v) THEN Throw(MonadError("Effect.map"), up.log)
    ELSE IF isHaltSMonad(up.v) THEN up
    ELSE
      LET out == IF isRightSMonad(up.v) THEN unwrapSMonad(up.v) ELSE up.v
          result == After(up.log, UserFn(func, out))
      IN IF result.t = "throw" THEN result
         ELSE IF panicOnPromise(result.v)
              THEN Throw(MonadError("Effect.map"), result.log)
         ELSE IF panicOnLazyMapViolation(result.v)
              THEN Throw(MonadError("Effect.map"), result.log)
         ELSE IF isRightSMonad(result.v)
              THEN Ret(unwrapSMonad(result.v), result.log)
         ELSE result

\* Variant of the catch closure without `if (isMonadError(err)) throw err`.
EffectCatchNewNoRethrow(up, func) ==
    LET tried == IF up.t = "ret" /\ panicOnPromise(up.v)
                 THEN Throw(MonadError("Effect.catch"), up.log)
                 ELSE up
    IN IF tried.t = "ret" THEN tried
       ELSE
         LET result == After(tried.log, UserFn(func, tried.v))
         IN IF result.t = "throw" THEN result
            ELSE IF panicOnPromise(result.v)
                 THEN Throw(MonadError("Effect.catch"), result.log)
            ELSE IF panicOnAnotherLazyMonad(result.v, "Effect")
                 THEN Throw(MonadError("Effect.catch"), result.log)
            ELSE IF result.v.k = "Effect"
                 THEN After(result.log, Thunk(result.v))
            ELSE IF isRightSMonad(result.v)
                 THEN Ret(unwrapSMonad(result.v), result.log)
            ELSE result

\* Variant of the catch closure that hands a halting container returned by
\* the upstream computation to func as if it had been thrown.
EffectCatchNewOnHalt(up, func) ==
    LET tried == IF up.t = "ret" /\ panicOnPromise(up.v)
                 THEN Throw(MonadError("Effect.catch"), up.log)
                 ELSE up
    IN IF tried.t = "ret" /\ ~isHaltSMonad(tried.v) THEN tried
       ELSE IF tried.t = "throw" /\ isMonadError(tried.v) THEN tried
       ELSE
         LET result == After(tried.log, UserFn(func, tried.v))
         IN IF result.t = "throw" THEN result
            ELSE IF panicOnPromise(result.v)
                 THEN Throw(MonadError("Effect.catch"), result.log)
            ELSE IF panicOnAnotherLazyMonad(result.v, "Effect")
                 THEN Throw(MonadError("Effect.catch"), result.log)
            ELSE IF result.v.k = "Effect"
                 THEN After(result.log, Thunk(result.v))
            ELSE IF isRightSMonad(result.v)
                 THEN Ret(unwrapSMonad(result.v), result.log)
            ELSE result

\* Variant of the catch closure that returns f's result without unwrapping
\* a continuing container.
EffectCatchNewNoUnwrap(up, func) ==
    LET tried == IF up.t = "ret" /\ panicOnPromise(up.v)
                 THEN Throw(MonadError("Effect.catch"), up.log)
                 ELSE up
    IN IF tried.t = "ret" THEN tried
       ELSE IF isMonadError(tried.v) THEN tried
       ELSE
         LET result == After(tried.log, UserFn(func, tried.v))
         IN IF result.t = "throw" THEN result
            ELSE IF panicOnPromise(result.v)
                 THEN Throw(MonadError("Effect.catch"), result.log)
            ELSE IF panicOnAnotherLazyMonad(result.v, "Effect")
                 THEN Throw(MonadError("Effect.catch"), result.log)
            ELSE IF result.v.k = "Effect"
                 THEN After(result.log, Thunk(result.v))
            ELSE result

\* Only build "nomod1" has catch.
EffectCatchNew(up, func) ==
    LET tried == IF up.t = "ret" /\ panicOnPromise(up.v)
                 THEN Throw(MonadError("Effect.catch"), up.log)
                 ELSE up
    IN IF tried.t = "ret" THEN tried
       ELSE IF isMonadError(tried.v) THEN tried
       ELSE
         LET result == After(tried.log, UserFn(func, tried.v))
         IN IF result.t = "throw" THEN result
            ELSE IF panicOnPromise(result.v)
                 THEN Throw(MonadError("Effect.catch"), result.log)
            ELSE IF panicOnAnotherLazyMonad(result.v, "Effect")
                 THEN Throw(MonadError("Effect.catch"), result.log)
            ELSE IF result.v.k = "Effect"
                 THEN After(result.log, Thunk(result.v))
            ELSE IF isRightSMonad(result.v)
                 THEN Ret(unwrapSMonad(result.v), result.log)
            ELSE result

\* run(): `res` is the outcome of this._value().
EffectRun(res) ==
    IF res.t = "throw" THEN res
    ELSE IF panicOnPromise(res.v) THEN Throw(MonadError("Effect.run"), res.log)
    ELSE res

--------------------------------------------------------------------------
(* Effect, build "module": no promise checks anywhere, no catch.           *)

EffectChainNewModule(up, func) ==
    IF up.t = "throw" THEN up
    ELSE IF isHaltSMonad(up.v) THEN up
    ELSE
      LET out == IF isRightSMonad(up.v) THEN unwrapSMonad(up.v) ELSE up.v
          resultEff == After(up.log, UserFn(func, out))
      IN IF resultEff.t = "throw" THEN resultEff
         ELSE IF resultEff.v.k # "Effect"
              THEN Throw(MonadError("Effect.chain"), resultEff.log)
         ELSE
           \* resultEff.run(), which in this build is just _effect()
           LET result == After(resultEff.log, Thunk(resultEff.v))
           IN IF result.t = "throw" THEN result
              ELSE IF isRightSMonad(result.v)
                   THEN Ret(unwrapSMonad(result.v), result.log)
              ELSE result

EffectMapNewModule(up, func) ==
    IF up.t = "throw" THEN up
    ELSE IF isHaltSMonad(up.v) THEN up
    ELSE
      LET out == IF isRightSMonad(up.v) THEN unwrapSMonad(up.v) ELSE up.v
          result == After(up.log, UserFn(func, out))
      IN IF result.t = "throw" THEN result
         ELSE IF isLMonad(result.v)
              THEN Throw(MonadError("Effect.map"), result.log)
         ELSE IF isRightSMonad(result.v)
              THEN Ret(unwrapSMonad(result.v), result.log)
         ELSE result

\* run() { return this._effect() }
EffectRunModule(res) == res

--------------------------------------------------------------------------
(* The asynchronous track.                                                 *)

\* `await e`, where r is the outcome of evaluating e: a promise is replaced
\* by what it settles as, after the invocations that lead there.
Await(r) ==
    IF r.t = "ret" /\ isPromise(r.v)
    THEN [t |-> IF r.v.m = "rejected" THEN "throw" ELSE "ret",
          v |-> r.v.p[1],
          log |-> r.log \o r.v.p[2].p]
    ELSE r

\* Calling an async function: it returns a promise at once.  `body` is the
\* outcome of the whole body, `sync` the invocations made before the first
\* suspension (a prefix of body.log).  Returning a promise adopts it.
AsyncCall(body, sync) ==
    LET done == Await(body)
    IN Ret(Settled(IF done.t = "ret" THEN "resolved" ELSE "rejected", done.v,
                   SubSeq(done.log, Len(sync) + 1, Len(done.log))),
           sync)

\* Builds "nomod1" and "nomod2".  `up` is the outcome of the call
\* this._value() that the closure awaits first.
EffectChainAsyncNew(up, asyncFunc) ==
    LET out0 == Await(up)
        body ==
          IF out0.t = "throw" THEN out0
          ELSE IF isHaltSMonad(out0.v) THEN out0
          ELSE
            LET out == IF isRightSMonad(out0.v) THEN unwrapSMonad(out0.v) ELSE out0.v
                resultEff == Await(After(out0.log, UserFn(asyncFunc, out)))
            IN IF resultEff.t = "throw" THEN resultEff
               ELSE IF panicOnAnotherInstance(resultEff.v, "Effect")
                    THEN Throw(MonadError("Effect.chainAsync"), resultEff.log)
               ELSE
                 LET result == Await(After(resultEff.log, Thunk(resultEff.v)))
                 IN IF result.t = "throw" THEN result
                    ELSE IF isRightSMonad(result.v)
                         THEN Ret(unwrapSMonad(result.v), result.log)
                    ELSE result
    IN AsyncCall(body, up.log)

EffectMapAsyncNew(up, asyncFunc) ==
    LET out0 == Await(up)
        body ==
          IF out0.t = "throw" THEN out0
          ELSE IF isHaltSMonad(out0.v) THEN out0
          ELSE
            LET out == IF isRightSMonad(out0.v) THEN unwrapSMonad(out0.v) ELSE out0.v
                result == Await(After(out0.log, UserFn(asyncFunc, out)))
            IN IF result.t = "throw" THEN result
               ELSE IF panicOnLazyMapViolation(result.v)
                    THEN Throw(MonadError("Effect.mapAsync"), result.log)
               ELSE IF isRightSMonad(result.v)
                    THEN Ret(unwrapSMonad(result.v), result.log)
               ELSE result
    IN AsyncCall(body, up.log)

\* Only build "nomod1" has catchAsync.
EffectCatchAsyncNew(up, func) ==
    LET tried == Await(up)
        body ==
          IF tried.t = "ret" THEN tried
          ELSE IF isMonadError(tried.v) THEN tried
          ELSE
            LET result == Await(After(tried.log, UserFn(func, tried.v)))
            IN IF result.t = "throw" THEN result
               ELSE IF panicOnAnotherLazyMonad(result.v, "Effect")
                    THEN Throw(MonadError("Effect.catchAsync"), result.log)
               ELSE IF result.v.k = "Effect"
                    THEN Await(After(result.log, Thunk(result.v)))
               ELSE IF isRightSMonad(result.v)
                    THEN Ret(unwrapSMonad(result.v), result.log)
               ELSE result
    IN AsyncCall(body, up.log)

\* async runAsync() { return await this._value() }
EffectRunAsync(res) == AsyncCall(Await(res), res.log)

--------------------------------------------------------------------------
(* Effect.fold.  handlers is [onRight, onHalt, onValue]; "" is a handler   *)
(* left out, which defaults to identical = val => val.                     *)

Handler(h, x) == IF h = "" THEN Ret(x, <<>>) ELSE UserFn(h, x)

\* fold of the four simple containers, as Effect.fold calls it.
\* Nothing.fold calls onNothing() without an argument.
SMonadFold(v, onRight, onHalt) ==
    CASE isRightSMonad(v)   -> Handler(onRight, v.p[1])
      [] v.k = "Fail"       -> Handler(onHalt, v.p[1])
      [] v.k = "Nothing"    -> Handler(onHalt, Undefined)

\* Variant of Effect.fold that hands every simple container to onRight.
EffectFoldAllRight(res, handlers) ==
    IF res.t = "throw" THEN res
    ELSE IF panicOnPromise(res.v) THEN Throw(MonadError("Effect.fold"), res.log)
    ELSE IF panicOnLazyMapViolation(res.v)
         THEN Throw(MonadError("Effect.fold"), res.log)
    ELSE IF isSMonad(res.v)
         THEN After(res.log, Handler(handlers.onRight, res.v.p[1]))
    ELSE After(res.log, Handler(handlers.onValue, res.v))

EffectFold(res, handlers) ==
    IF res.t = "throw" THEN res
    ELSE IF panicOnPromise(res.v) THEN Throw(MonadError("Effect.fold"), res.log)
    ELSE IF panicOnLazyMapViolation(res.v)
         THEN Throw(MonadError("Effect.fold"), res.log)
    ELSE IF isSMonad(res.v)
         THEN After(res.log, SMonadFold(res.v, handlers.onRight, handlers.onHalt))
    ELSE After(res.log, Handler(handlers.onValue, res.v))

EffectFoldModule(res, handlers) ==
    IF res.t = "throw" THEN res
    ELSE IF isSMonad(res.v)
         THEN After(res.log, SMonadFold(res.v, handlers.onRight, handlers.onHalt))
    ELSE IF isLMonad(res.v) THEN Throw(MonadError("Effect.fold"), res.log)
    ELSE After(res.log, Handler(handlers.onValue, res.v))

\* foldAsync(handlers), builds "nomod1" and "nomod2".
EffectFoldAsync(res0, handlers) ==
    LET res == Await(res0)
        body ==
          IF res.t = "throw" THEN res
          ELSE IF panicOnLazyMapViolation(res.v)
               THEN Throw(MonadError("Effect.foldAsync"), res.log)
          ELSE IF isSMonad(res.v)
               THEN Await(After(res.log,
                                SMonadFold(res.v, handlers.onRight, handlers.onHalt)))
          ELSE Await(After(res.log, Handler(handlers.onValue, res.v)))
    IN AsyncCall(body, res0.log)

--------------------------------------------------------------------------
(* State.  `initial` is the outcome of this._value(state).                 *)

\* const [val, firstState] = initial throws a TypeError unless initial is
\* iterable; of the values a transition yields here only pairs are.
NotIterable(v) == v.k # "pair"
TypeError == Error("TypeError")

\* Build "nomod1".
\* Variant of the chain closure that keeps the predecessor's next state
\* instead of the one the chained State produced.
StateChainNewKeepsState(initial, func) ==
    IF initial.t = "throw" THEN initial
    ELSE IF panicOnPromise(initial.v)
         THEN Throw(MonadError("State.chain"), initial.log)
    ELSE IF NotIterable(initial.v) THEN Throw(TypeError, initial.log)
    ELSE
      LET val == initial.v.p[1]
          firstState == initial.v.p[2]
          stateMonad == After(initial.log, UserFn(func, val))
      IN IF stateMonad.t = "throw" THEN stateMonad
         ELSE IF panicOnAnotherInstance(stateMonad.v, "State")
              THEN Throw(MonadError("State.chain"), stateMonad.log)
         ELSE LET made == After(stateMonad.log, Transition(stateMonad.v, firstState))
              IN IF made.t = "ret" /\ made.v.k = "pair"
                 THEN Ret(Pair(made.v.p[1], firstState), made.log)
                 ELSE made

StateChainNew(initial, func) ==
    IF initial.t = "throw" THEN initial
    ELSE IF panicOnPromise(initial.v)
         THEN Throw(MonadError("State.chain"), initial.log)
    ELSE IF NotIterable(initial.v) THEN Throw(TypeError, initial.log)
    ELSE
      LET val == initial.v.p[1]
          firstState == initial.v.p[2]
          stateMonad == After(initial.log, UserFn(func, val))
      IN IF stateMonad.t = "throw" THEN stateMonad
         ELSE IF panicOnAnotherInstance(stateMonad.v, "State")
              THEN Throw(MonadError("State.chain"), stateMonad.log)
         ELSE After(stateMonad.log, Transition(stateMonad.v, firstState))

StateMapNew(initial, func) ==
    IF initial.t = "throw" THEN initial
    ELSE IF panicOnPromise(initial.v)
         THEN Throw(MonadError("State.map"), initial.log)
    ELSE IF NotIterable(initial.v) THEN Throw(TypeError, initial.log)
    ELSE
      LET val == initial.v.p[1]
          firstState == initial.v.p[2]
          newVal == After(initial.log, UserFn(func, val))
      IN IF newVal.t = "throw" THEN newVal
         ELSE IF panicOnPromise(newVal.v)
              THEN Throw(MonadError("State.map"), newVal.log)
         ELSE IF panicOnLazyMapViolation(newVal.v)
              THEN Throw(MonadError("State.map"), newVal.log)
         ELSE Ret(Pair(newVal.v, firstState), newVal.log)

\* Variant of the catch closure that returns the State func made without
\* running its transition.
StateCatchNewNoRun(initial, func, state) ==
    LET tried == IF initial.t = "ret" /\ panicOnPromise(initial.v)
                 THEN Throw(MonadError("State.catch"), initial.log)
                 ELSE initial
    IN IF tried.t = "ret" THEN tried
       ELSE IF isMonadError(tried.v) THEN tried
       ELSE
         LET result == After(tried.log, UserFn(func, state))
         IN IF result.t = "throw" THEN result
            ELSE IF panicOnPromise(result.v)
                 THEN Throw(MonadError("State.catch"), result.log)
            ELSE IF panicOnAnotherLazyMonad(result.v, "State")
                 THEN Throw(MonadError("State.catch"), result.log)
            ELSE result

\* catch(func): func gets the state the new transition was called with.
StateCatchNew(initial, func, state) ==
    LET tried == IF initial.t = "ret" /\ panicOnPromise(initial.v)
                 THEN Throw(MonadError("State.catch"), initial.log)
                 ELSE initial
    IN IF tried.t = "ret" THEN tried
       ELSE IF isMonadError(tried.v) THEN tried
       ELSE
         LET result == After(tried.log, UserFn(func, state))
         IN IF result.t = "throw" THEN result
            ELSE IF panicOnPromise(result.v)
                 THEN Throw(MonadError("State.catch"), result.log)
            ELSE IF panicOnAnotherLazyMonad(result.v, "State")
                 THEN Throw(MonadError("State.catch"), result.log)
            ELSE IF result.v.k = "State"
                 THEN After(result.log, Transition(result.v, state))
            ELSE result

\* run(state) and fold(state) have the same body.
StateRun(result) ==
    IF result.t = "throw" THEN result
    ELSE IF panicOnPromise(result.v)
         THEN Throw(MonadError("State.run"), result.log)
    ELSE result

\* The loop of runIter over this._iterStore, from entry i on, with the
\* current [val, newState] and the invocations made so far.
RECURSIVE IterLoop(_, _, _, _, _)
IterLoop(store, i, val, newState, log) ==
    IF i > Len(store) THEN Ret(Pair(val, newState), log)
    ELSE
      LET func == store[i][1]
          method == store[i][2]
          r == After(log, UserFn(func, val))
      IN IF r.t = "throw" THEN r
         ELSE IF method = "c"
         THEN IF panicOnAnotherInstance(r.v, "State")
              THEN Throw(MonadError("State.runIter"), r.log)
              ELSE LET next == After(r.log, Transition(r.v, newState))
                   IN IF next.t = "throw" THEN next
                      ELSE IF NotIterable(next.v) THEN Throw(TypeError, next.log)
                      ELSE IterLoop(store, i + 1, next.v.p[1], next.v.p[2], next.log)
         ELSE IF panicOnLazyMapViolation(r.v)
              THEN Throw(MonadError("State.runIter"), r.log)
              ELSE IterLoop(store, i + 1, r.v, newState, r.log)

\* runIter(state, clear): the outcome of the try block.
StateRunIter(initial, store) ==
    IF initial.t = "throw" THEN initial
    ELSE IF panicOnPromise(initial.v)
         THEN Throw(MonadError("State.runIter"), initial.log)
    ELSE IF NotIterable(initial.v) THEN Throw(TypeError, initial.log)
    ELSE IterLoop(store, 1, initial.v.p[1], initial.v.p[2], initial.log)

\* Variant of runIter whose finally block never clears the queue.
IterStoreKept(store, clear) == store

\* finally { if (clear) { this._iterStore = [] } }
IterStoreAfter(store, clear) == IF clear THEN <<>> ELSE store

\* Variant of runIter that resets the queue after the loop instead of in a
\* finally block: a run that raises leaves the queue as it was.
IterStoreAfterReturn(out, store, clear) ==
    IF out.t = "ret" THEN IterStoreAfter(store, clear) ELSE store

\* The queue after runIter ended with outcome `out`: the finally block
\* runs whether the try block returned or raised.
IterStoreAfterRun(out, store, clear) == IterStoreAfter(store, clear)

\* The asynchronous track of State, build "nomod1".
StateChainAsyncNew(up, func) ==
    LET initial == Await(up)
        body ==
          IF initial.t = "throw" THEN initial
          ELSE IF NotIterable(initial.v) THEN Throw(TypeError, initial.log)
          ELSE
            LET val == initial.v.p[1]
                firstState == initial.v.p[2]
                stateMonad == Await(After(initial.log, UserFn(func, val)))
            IN IF stateMonad.t = "throw" THEN stateMonad
               ELSE IF panicOnAnotherInstance(stateMonad.v, "State")
                    THEN Throw(MonadError("State.chainAsync"), stateMonad.log)
               ELSE Await(After(stateMonad.log, Transition(stateMonad.v, firstState)))
    IN AsyncCall(body, up.log)

StateMapAsyncNew(up, func) ==
    LET initial == Await(up)
        body ==
          IF initial.t = "throw" THEN initial
          ELSE IF NotIterable(initial.v) THEN Throw(TypeError, initial.log)
          ELSE
            LET val == initial.v.p[1]
                firstState == initial.v.p[2]
                newVal == Await(After(initial.log, UserFn(func, val)))
            IN IF newVal.t = "throw" THEN newVal
               ELSE IF panicOnLazyMapViolation(newVal.v)
                    THEN Throw(MonadError("State.mapAsync"), newVal.log)
               ELSE Ret(Pair(newVal.v, firstState), newVal.log)
    IN AsyncCall(body, up.log)

StateCatchAsyncNew(up, func, state) ==
    LET tried == Await(up)
        body ==
          IF tried.t = "ret" THEN tried
          ELSE IF isMonadError(tried.v) THEN tried
          ELSE
            LET result == Await(After(tried.log, UserFn(func, state)))
            IN IF result.t = "throw" THEN result
               ELSE IF panicOnAnotherLazyMonad(result.v, "State")
                    THEN Throw(MonadError("State.catchAsync"), result.log)
               ELSE IF result.v.k = "State"
                    THEN Await(After(result.log, Transition(result.v, state)))
               ELSE result
    IN AsyncCall(body, up.log)

\* async runAsync(state) { return await this._value(state) }; foldAsync too.
StateRunAsync(result) == AsyncCall(Await(result), result.log)

--------------------------------------------------------------------------
(* State, build "nomod2": map and mapIter reject every container; chain,   *)
(* run and fold are as in "nomod1"; there is no catch.                     *)

StateMapNew2(initial, func) ==
    IF initial.t = "throw" THEN initial
    ELSE IF isPromise(initial.v)
         THEN Throw(MonadError("State.map"), initial.log)
    ELSE IF NotIterable(initial.v) THEN Throw(TypeError, initial.log)
    ELSE
      LET val == initial.v.p[1]
          firstState == initial.v.p[2]
          newVal == After(initial.log, UserFn(func, val))
      IN IF newVal.t = "throw" THEN newVal
         ELSE IF isPromise(newVal.v)
              THEN Throw(MonadError("State.map"), newVal.log)
         ELSE IF isLMonad(newVal.v) \/ isSMonad(newVal.v)
              THEN Throw(MonadError("State.map"), newVal.log)
         ELSE Ret(Pair(newVal.v, firstState), newVal.log)

StateMapAsyncNew2(up, func) ==
    LET initial == Await(up)
        body ==
          IF initial.t = "throw" THEN initial
          ELSE IF NotIterable(initial.v) THEN Throw(TypeError, initial.log)
          ELSE
            LET val == initial.v.p[1]
                firstState == initial.v.p[2]
                newVal == Await(After(initial.log, UserFn(func, val)))
            IN IF newVal.t = "throw" THEN newVal
               ELSE IF isLMonad(newVal.v) \/ isSMonad(newVal.v)
                    THEN Throw(MonadError("State.mapAsync"), newVal.log)
               ELSE Ret(Pair(newVal.v, firstState), newVal.log)
    IN AsyncCall(body, up.log)

\* The loop of runIter in builds "nomod2" and "module" (same text).
RECURSIVE IterLoop2(_, _, _, _, _)
IterLoop2(store, i, val, newState, log) ==
    IF i > Len(store) THEN Ret(Pair(val, newState), log)
    ELSE
      LET func == store[i][1]
          method == store[i][2]
          r == After(log, UserFn(func, val))
      IN IF r.t = "throw" THEN r
         ELSE IF method = "c"
         THEN IF r.v.k # "State"
              THEN Throw(MonadError("State.runIter"), r.log)
              ELSE LET next == After(r.log, Transition(r.v, newState))
                   IN IF next.t = "throw" THEN next
                      ELSE IF NotIterable(next.v) THEN Throw(TypeError, next.log)
                      ELSE IterLoop2(store, i + 1, next.v.p[1], next.v.p[2], next.log)
         ELSE IF isLMonad(r.v) \/ isSMonad(r.v)
              THEN Throw(MonadError("State.runIter"), r.log)
              ELSE IterLoop2(store, i + 1, r.v, newState, r.log)

StateRunIter2(initial, store) ==
    IF initial.t = "throw" THEN initial
    ELSE IF isPromise(initial.v)
         THEN Throw(MonadError("State.runIter"), initial.log)
    ELSE IF NotIterable(initial.v) THEN Throw(TypeError, initial.log)
    ELSE IterLoop2(store, 1, initial.v.p[1], initial.v.p[2], initial.log)

--------------------------------------------------------------------------
(* State, build "module": no promise checks, no catch.                     *)

StateChainNewModule(initial, func) ==
    IF initial.t = "throw" THEN initial
    ELSE IF NotIterable(initial.v) THEN Throw(TypeError, initial.log)
    ELSE
      LET val == initial.v.p[1]
          firstState == initial.v.p[2]
          stateMonad == After(initial.log, UserFn(func, val))
      IN IF stateMonad.t = "throw" THEN stateMonad
         ELSE IF stateMonad.v.k # "State"
              THEN Throw(MonadError("State.chain"), stateMonad.log)
         ELSE After(stateMonad.log, Transition(stateMonad.v, firstState))

StateMapNewModule(initial, func) ==
    IF initial.t = "throw" THEN initial
    ELSE IF NotIterable(initial.v) THEN Throw(TypeError, initial.log)
    ELSE
      LET val == initial.v.p[1]
          newState == initial.v.p[2]
          newVal == After(initial.log, UserFn(func, val))
      IN IF newVal.t = "throw" THEN newVal
         ELSE IF isLMonad(newVal.v) \/ isSMonad(newVal.v)
              THEN Throw(MonadError("State.map"), newVal.log)
         ELSE Ret(Pair(newVal.v, newState), newVal.log)

\* run(state) { return this._run(state) }; fold is the same.
StateRunModule(result) == result

StateRunIterModule(initial, store) ==
    IF initial.t = "throw" THEN initial
    ELSE IF NotIterable(initial.v) THEN Throw(TypeError, initial.log)
    ELSE IterLoop2(store, 1, initial.v.p[1], initial.v.p[2], initial.log)

--------------------------------------------------------------------------
(* Simple containers: chain and map of the four classes.  `self` is the    *)
(* receiver; a returned container allocated by the library has site "lib". *)

\* Variant of Success.chain without panicOnChainViolation(res).
SuccessChainUnchecked(self, func) == UserFn(func, self.p[1])

SuccessChain(self, func) ==
    LET res == UserFn(func, self.p[1])
    IN IF res.t = "throw" THEN res
       ELSE IF panicOnChainViolation(res.v)
            THEN Throw(MonadError("Success.chain"), res.log)
       ELSE res

JustChain(self, func) ==
    LET res == UserFn(func, self.p[1])
    IN IF res.t = "throw" THEN res
       ELSE IF panicOnChainViolation(res.v)
            THEN Throw(MonadError("Just.chain"), res.log)
       ELSE res

\* Build "nomod1": map rejects every Monad (simple or lazy).
\* Variant of Success.map without panicOnMapViolation(res).
SuccessMapUnchecked(self, func) ==
    LET res == UserFn(func, self.p[1])
    IN IF res.t = "throw" THEN res
       ELSE Ret(Success(res.v, "lib"), res.log)

SuccessMap(self, func) ==
    LET res == UserFn(func, self.p[1])
    IN IF res.t = "throw" THEN res
       ELSE IF panicOnMapViolation(res.v)
            THEN Throw(MonadError("Success.map"), res.log)
       ELSE Ret(Success(res.v, "lib"), res.log)

JustMap(self, func) ==
    LET res == UserFn(func, self.p[1])
    IN IF res.t = "throw" THEN res
       ELSE IF panicOnMapViolation(res.v)
            THEN Throw(MonadError("Just.map"), res.log)
       ELSE Ret(Just(res.v, "lib"), res.log)

\* Builds "nomod2" and "module": map rejects simple containers only.
SuccessMap2(self, func) ==
    LET res == UserFn(func, self.p[1])
    IN IF res.t = "throw" THEN res
       ELSE IF isSMonad(res.v)
            THEN Throw(MonadError("Success.map"), res.log)
       ELSE Ret(Success(res.v, "lib"), res.log)

\* Variant of Just.map that wraps the result in a Success.
JustMap2AsSuccess(self, func) ==
    LET res == UserFn(func, self.p[1])
    IN IF res.t = "throw" THEN res
       ELSE IF isSMonad(res.v)
            THEN Throw(MonadError("Just.map"), res.log)
       ELSE Ret(Success(res.v, "lib"), res.log)

JustMap2(self, func) ==
    LET res == UserFn(func, self.p[1])
    IN IF res.t = "throw" THEN res
       ELSE IF isSMonad(res.v)
            THEN Throw(MonadError("Just.map"), res.log)
       ELSE Ret(Just(res.v, "lib"), res.log)

\* Variant of Nothing.chain that applies func to the held value.
NothingChainApplied(self, func) == UserFn(func, self.p[1])

\* chain(_) { return this } and map(_) { return this } of Fail and Nothing.
FailChain(self, func)    == Ret(self, <<>>)
FailMap(self, func)      == Ret(self, <<>>)
NothingChain(self, func) == Ret(self, <<>>)
NothingMap(self, func)   == Ret(self, <<>>)

\* Accessors.  getOrElse(_) { return this._value } and
\* result() { return this._value } of Success and Just.
SuccessGetOrElse(self, value) == Ret(self.p[1], <<>>)
SuccessResult(self)           == Ret(self.p[1], <<>>)
JustGetOrElse(self, value)    == Ret(self.p[1], <<>>)
JustResult(self)              == Ret(self.p[1], <<>>)

\* Variant of Fail.result that hands out the held value.
FailResultExposed(self) == Ret(self.p[1], <<>>)

\* getOrElse(value) { return value } and result() { throw new MonadError }
\* of Fail and Nothing.
FailGetOrElse(self, value)    == Ret(value, <<>>)
FailResult(self)              == Throw(MonadError("Fail.result"), <<>>)
NothingGetOrElse(self, value) == Ret(value, <<>>)
NothingResult(self)           == Throw(MonadError("Nothing.result"), <<>>)

\* valueContainer.constructor.of(res): a new container of the class cls.
ConstructorOf(cls, res) ==
    CASE cls = "Success" -> Success(res, "lib")
      [] cls = "Fail"    -> Fail(res, "lib")
      [] cls = "Just"    -> Just(res, "lib")
      [] cls = "Nothing" -> Nothing("lib")

\* Variant of Success.ap that wraps the result in the receiver's class.
SuccessApOwnClass(self, valueContainer) ==
    IF panicIfNotFunction(self.p[1]) THEN Throw(MonadError("Success.ap"), <<>>)
    ELSE IF panicOnChainViolation(valueContainer)
         THEN Throw(MonadError("Success.ap"), <<>>)
    ELSE IF isHaltSMonad(valueContainer) THEN Ret(valueContainer, <<>>)
    ELSE LET res == UserFn(self.p[1].m, valueContainer.p[1])
         IN IF res.t = "throw" THEN res
            ELSE Ret(ConstructorOf(self.k, res.v), res.log)

\* ap(valueContainer) of Success and Just: the held function applied to the
\* value held by the argument.
SuccessAp(self, valueContainer) ==
    IF panicIfNotFunction(self.p[1]) THEN Throw(MonadError("Success.ap"), <<>>)
    ELSE IF panicOnChainViolation(valueContainer)
         THEN Throw(MonadError("Success.ap"), <<>>)
    ELSE IF isHaltSMonad(valueContainer) THEN Ret(valueContainer, <<>>)
    ELSE LET res == UserFn(self.p[1].m, valueContainer.p[1])
         IN IF res.t = "throw" THEN res
            ELSE Ret(ConstructorOf(valueContainer.k, res.v), res.log)

JustAp(self, valueContainer) ==
    IF panicIfNotFunction(self.p[1]) THEN Throw(MonadError("Just.ap"), <<>>)
    ELSE IF panicOnChainViolation(valueContainer)
         THEN Throw(MonadError("Just.ap"), <<>>)
    ELSE IF isHaltSMonad(valueContainer) THEN Ret(valueContainer, <<>>)
    ELSE LET res == UserFn(self.p[1].m, valueContainer.p[1])
         IN IF res.t = "throw" THEN res
            ELSE Ret(ConstructorOf(valueContainer.k, res.v), res.log)

\* ap(_) { return this } of Fail and Nothing.
FailAp(self, valueContainer)    == Ret(self, <<>>)
NothingAp(self, valueContainer) == Ret(self, <<>>)

\* Maybe.fromNullable(value, treatAsNull = null), builds "nomod1" and
\* "nomod2".
MaybeFromNullable(value, treatAsNull) ==
    IF value.k \in {"undefined", "null"} THEN Ret(Nothing("lib"), <<>>)
    ELSE IF treatAsNull.k = "function"
         THEN LET empty == UserFn(treatAsNull.m, value)
              IN IF empty.t = "throw" THEN empty
                 ELSE IF Truthy(empty.v) THEN Ret(Nothing("lib"), empty.log)
                 ELSE Ret(Just(value, "lib"), empty.log)
    ELSE Ret(Just(value, "lib"), <<>>)

\* Build "module": fromNullable(value) has one parameter, a second
\* argument is ignored.
MaybeFromNullableModule(value, treatAsNull) ==
    IF value.k \in {"undefined", "null"} THEN Ret(Nothing("lib"), <<>>)
    ELSE Ret(Just(value, "lib"), <<>>)

\* Either.try(testedFunc), build "nomod1": the catch block rethrows a
\* MonadError, the one of panicOnPromise included.
EitherTry(testedFunc) ==
    LET result == Thunk(testedFunc)
    IN IF result.t = "throw"
       THEN IF isMonadError(result.v) THEN result
            ELSE Ret(Fail(result.v, "lib"), result.log)
       ELSE IF panicOnPromise(result.v)
            THEN Throw(MonadError("Either.try"), result.log)
       ELSE Ret(Success(result.v, "lib"), result.log)

\* Build "nomod2": the catch block is `return new Fail(error)` for whatever
\* was thrown in the try block, its own MonadError included.
EitherTry2(testedFunc) ==
    LET result == Thunk(testedFunc)
    IN IF result.t = "throw" THEN Ret(Fail(result.v, "lib"), result.log)
       ELSE IF isPromise(result.v)
            THEN Ret(Fail(MonadError("Either.try"), "lib"), result.log)
       ELSE Ret(Success(result.v, "lib"), result.log)

\* Recovery hooks.  On Success and Just all four are (_) { return this }.
SuccessOnFailChain(self, func)    == Ret(self, <<>>)
SuccessOnFailMap(self, func)      == Ret(self, <<>>)
SuccessOnNothingChain(self, func) == Ret(self, <<>>)
SuccessOnNothingMap(self, func)   == Ret(self, <<>>)
JustOnFailChain(self, func)       == Ret(self, <<>>)
JustOnFailMap(self, func)         == Ret(self, <<>>)
JustOnNothingChain(self, func)    == Ret(self, <<>>)
JustOnNothingMap(self, func)      == Ret(self, <<>>)

\* Fail: the onFail hooks apply func to the held value.
FailOnFailChain(self, func) ==
    LET res == UserFn(func, self.p[1])
    IN IF res.t = "throw" THEN res
       ELSE IF panicOnChainViolation(res.v)
            THEN Throw(MonadError("Fail.onFailChain"), res.log)
       ELSE res

\* Build "nomod1": panicOnMapViolation rejects every Monad.
FailOnFailMap(self, func) ==
    LET res == UserFn(func, self.p[1])
    IN IF res.t = "throw" THEN res
       ELSE IF panicOnMapViolation(res.v)
            THEN Throw(MonadError("Fail.onFailMap"), res.log)
       ELSE Ret(Success(res.v, "lib"), res.log)

\* Builds "nomod2" and "module": only simple containers are rejected.
FailOnFailMap2(self, func) ==
    LET res == UserFn(func, self.p[1])
    IN IF res.t = "throw" THEN res
       ELSE IF isSMonad(res.v)
            THEN Throw(MonadError("Fail.onFailMap"), res.log)
       ELSE Ret(Success(res.v, "lib"), res.log)

FailOnNothingChain(self, func) == Ret(self, <<>>)
FailOnNothingMap(self, func)   == Ret(self, <<>>)

\* Nothing: the onNothing hooks call func(), without an argument.
NothingOnFailChain(self, func) == Ret(self, <<>>)
NothingOnFailMap(self, func)   == Ret(self, <<>>)

NothingOnNothingChain(self, func) ==
    LET res == UserFn(func, Undefined)
    IN IF res.t = "throw" THEN res
       ELSE IF panicOnChainViolation(res.v)
            THEN Throw(MonadError("Nothing.onNothingChain"), res.log)
       ELSE res

\* Build "nomod1".
NothingOnNothingMap(self, func) ==
    LET res == UserFn(func, Undefined)
    IN IF res.t = "throw" THEN res
       ELSE IF panicOnMapViolation(res.v)
            THEN Throw(MonadError("Nothing.onNothingMap"), res.log)
       ELSE Ret(Just(res.v, "lib"), res.log)

\* Builds "nomod2" and "module".
NothingOnNothingMap2(self, func) ==
    LET res == UserFn(func, Undefined)
    IN IF res.t = "throw" THEN res
       ELSE IF isSMonad(res.v)
            THEN Throw(MonadError("Nothing.onNothingMap"), res.log)
       ELSE Ret(Just(res.v, "lib"), res.log)

--------------------------------------------------------------------------
(* The client session.                                                     *)

VARIABLES
    variant,    \* which build of the library runs
    family,     \* "none" before the first container exists, then its class
    root,       \* the first lazy container; the current simple container
    steps,      \* steps[i] = [kind, f]: instance i is instance i-1 .kind(f)
    iterStore,  \* iterStore[i + 1] = this._iterStore of State instance i
    last,       \* the latest API call: [op, at, arg, out], out its outcome
    calls       \* the runAsync calls started and not awaited at once

vars == <<variant, family, root, steps, iterStore, last, calls>>

Variants == {"nomod1", "nomod2", "module"}

\* Inputs of the session.
EffectThunks == {"five", "succ5", "fail", "async", "throw", "viol"}
PureValues   == {Num(0)}
StateRoots   == {Val("function", 0, "step", <<Num(0)>>),
                 Val("function", 0, "async", <<Num(0)>>),
                 Val("function", 0, "throw", <<Num(0)>>),
                 Val("function", 0, "pure", <<Num(0)>>),
                 Val("function", 0, "get", <<Undefined>>),
                 Val("function", 0, "put", <<Num(7)>>)}
InitStates   == {Num(1)}
\* The functions the session passes to each method; E... to Effect's,
\* S... to State's.
EMapFns   == {"inc", "toJust", "toFail", "toEffect", "toPromise", "throwErr"}
EChainFns == {"toEffect", "toEffectJust", "toEffectAsync", "toState", "toJust", "inc"}
ECatchFns == {"inc", "toJust", "toEffect", "toState", "toPromise"}
EMapAsyncFns   == {"inc", "toPromise", "toJust", "toEffect"}
EChainAsyncFns == {"toEffect", "toEffectAsync", "toState", "toJust"}
ECatchAsyncFns == {"inc", "toEffectAsync", "toState"}
SMapFns   == {"inc", "toJust", "toEffect", "toPromise"}
SChainFns == {"toState", "toStateAsync", "toEffect", "toJust", "inc"}
SCatchFns == {"inc", "toState", "toEffect", "toPromise"}
SMapAsyncFns   == {"inc", "toPromise", "toJust", "toEffect"}
SChainAsyncFns == {"toState", "toStateAsync", "toJust"}
SCatchAsyncFns == {"inc", "toStateAsync", "toEffect"}
IterMapFns   == {"inc", "toJust", "toEffect", "toPromise"}
IterChainFns == {"toState", "toStateAsync", "inc"}
FoldHandlers == {[onRight |-> "", onHalt |-> "", onValue |-> ""],
                 [onRight |-> "inc", onHalt |-> "toJust", onValue |-> "toFail"]}

Init ==
    /\ variant \in Variants
    /\ family = "none"
    /\ root = Undefined
    /\ steps = <<>>
    /\ iterStore = <<>>
    /\ last = [op |-> "none", at |-> 0, arg |-> Undefined,
               out |-> Ret(Undefined, <<>>)]
    /\ calls = <<>>

Tip == Len(steps)
Step(kind, f) == [kind |-> kind, f |-> f]

\* this._value() of Effect instance i.
RECURSIVE EffectValue(_)
EffectValue(i) ==
    IF i = 0 THEN Thunk(root)
    ELSE LET up == EffectValue(i - 1)
             func == steps[i].f
         IN CASE steps[i].kind = "map" ->
                   IF variant = "module" THEN EffectMapNewModule(up, func)
                   ELSE EffectMapNew(up, func)
              [] steps[i].kind = "chain" ->
                   IF variant = "module" THEN EffectChainNewModule(up, func)
                   ELSE EffectChainNew(up, func)
              [] steps[i].kind = "catch" -> EffectCatchNew(up, func)
              [] steps[i].kind = "mapAsync" -> EffectMapAsyncNew(up, func)
              [] steps[i].kind = "chainAsync" -> EffectChainAsyncNew(up, func)
              [] steps[i].kind = "catchAsync" -> EffectCatchAsyncNew(up, func)

\* this._value(state) of State instance i.
RECURSIVE StateValue(_, _)
StateValue(i, state) ==
    IF i = 0 THEN Transition(root, state)
    ELSE LET initial == StateValue(i - 1, state)
             func == steps[i].f
         IN CASE steps[i].kind = "map" ->
                   (CASE variant = "nomod1" -> StateMapNew(initial, func)
                      [] variant = "nomod2" -> StateMapNew2(initial, func)
                      [] variant = "module" -> StateMapNewModule(initial, func))
              [] steps[i].kind = "chain" ->
                   IF variant = "module" THEN StateChainNewModule(initial, func)
                   ELSE StateChainNew(initial, func)
              [] steps[i].kind = "catch" -> StateCatchNew(initial, func, state)
              [] steps[i].kind = "mapAsync" ->
                   IF variant = "nomod1" THEN StateMapAsyncNew(initial, func)
                   ELSE StateMapAsyncNew2(initial, func)
              [] steps[i].kind = "chainAsync" -> StateChainAsyncNew(initial, func)
              [] steps[i].kind = "catchAsync" ->
                   StateCatchAsyncNew(initial, func, state)

\* The record of one API call: its name, the instance it was called on
\* (0 the root), its outcome, and in `arg` the receiver of a call on a
\* simple container or the state given to an entry point of State.
Called(op, at, arg, out) == [op |-> op, at |-> at, arg |-> arg, out |-> out]
Did(op, at, out) == Called(op, at, Undefined, out)
NoCalls == Ret(Undefined, <<>>)

(* The methods that derive an instance.  Each returns the step stored in   *)
(* the new instance and the outcome of the call itself: map, chain and     *)
(* catch only build the closure and pass it to the constructor.            *)
\* Variant of map that evaluates the closure while composing.
EffectMapEager(func) ==
    [inst |-> Step("map", func), out |-> EffectMapNew(EffectValue(Tip), func)]
EffectMap(func)   == [inst |-> Step("map", func), out |-> NoCalls]
EffectChain(func) == [inst |-> Step("chain", func), out |-> NoCalls]
EffectCatch(func) == [inst |-> Step("catch", func), out |-> NoCalls]
StateMap(func)    == [inst |-> Step("map", func), out |-> NoCalls]
StateChain(func)  == [inst |-> Step("chain", func), out |-> NoCalls]
StateCatch(func)  == [inst |-> Step("catch", func), out |-> NoCalls]
EffectMapAsync(func)   == [inst |-> Step("mapAsync", func), out |-> NoCalls]
EffectChainAsync(func) == [inst |-> Step("chainAsync", func), out |-> NoCalls]
EffectCatchAsync(func) == [inst |-> Step("catchAsync", func), out |-> NoCalls]
StateMapAsync(func)    == [inst |-> Step("mapAsync", func), out |-> NoCalls]
StateChainAsync(func)  == [inst |-> Step("chainAsync", func), out |-> NoCalls]
StateCatchAsync(func)  == [inst |-> Step("catchAsync", func), out |-> NoCalls]

\* static of(effect) / the constructor: TRUE when it throws.
LazyOfThrows(arg) == panicIfNotFunction(arg)

----
(* Effect *)

\* Effect.of(effect)
Effect_of(effect) ==
    /\ family = "none"
    /\ IF LazyOfThrows(effect)
       THEN /\ last' = Did("of", 0, Throw(MonadError("Effect.of"), <<>>))
            /\ UNCHANGED <<family, root>>
       ELSE /\ family' = "Effect"
            /\ root' = LazyEffect(effect.m, Undefined)
            /\ last' = Did("of", 0, NoCalls)
    /\ UNCHANGED <<variant, calls, steps, iterStore>>

\* Effect.pure(val)
Effect_pure(val) ==
    /\ family = "none"
    /\ family' = "Effect"
    /\ root' = LazyEffect("pure", val)
    /\ last' = Did("pure", 0, NoCalls)
    /\ UNCHANGED <<variant, calls, steps, iterStore>>

\* Entries queued in all iteration queues together.
RECURSIVE Queued(_)
Queued(stores) ==
    IF stores = <<>> THEN 0 ELSE Len(Head(stores)) + Queued(Tail(stores))
Composed == Tip + Queued(iterStore)

\* A session composes its pipeline on one track: all steps synchronous or
\* all asynchronous (the root may be either in both cases).
SyncKinds  == {"map", "chain", "catch"}
AsyncKinds == {"mapAsync", "chainAsync", "catchAsync"}
SameTrack(kind) ==
    \A i \in 1..Tip : (steps[i].kind \in SyncKinds) <=> (kind \in SyncKinds)

\* Variant of the derivation that stores the new computation in the
\* receiver and returns the receiver.
DeriveInPlace(op, made) ==
    /\ Composed < MaxSteps
    /\ SameTrack(op)
    /\ steps' = IF Tip = 0 THEN Append(steps, made.inst)
                ELSE [steps EXCEPT ![Tip] = made.inst]
    /\ iterStore' = IF Tip = 0 THEN Append(iterStore, <<>>) ELSE iterStore
    /\ last' = Did(op, Tip, made.out)
    /\ UNCHANGED <<variant, calls, family, root>>

Derive(op, made) ==
    /\ Composed < MaxSteps
    /\ SameTrack(op)
    /\ steps' = Append(steps, made.inst)
    /\ iterStore' = Append(iterStore, <<>>)
    /\ last' = Did(op, Tip, made.out)
    /\ UNCHANGED <<variant, calls, family, root>>

Effect_map(func)   == family = "Effect" /\ Derive("map", EffectMap(func))
Effect_chain(func) == family = "Effect" /\ Derive("chain", EffectChain(func))
Effect_catch(func) ==
    family = "Effect" /\ variant = "nomod1" /\ Derive("catch", EffectCatch(func))

Effect_mapAsync(func) ==
    family = "Effect" /\ variant # "module" /\ Derive("mapAsync", EffectMapAsync(func))
Effect_chainAsync(func) ==
    family = "Effect" /\ variant # "module"
                      /\ Derive("chainAsync", EffectChainAsync(func))
Effect_catchAsync(func) ==
    family = "Effect" /\ variant = "nomod1"
                      /\ Derive("catchAsync", EffectCatchAsync(func))

\* run()
Effect_run ==
    /\ family = "Effect"
    /\ last' = Did("run", Tip, IF variant = "module"
                               THEN EffectRunModule(EffectValue(Tip))
                               ELSE EffectRun(EffectValue(Tip)))
    /\ UNCHANGED <<variant, calls, family, root, steps, iterStore>>

\* The handlers object of a fold call, as recorded in `last`.
HandlersArg(handlers) ==
    Val("handlers", 0, "", <<Fn(handlers.onRight), Fn(handlers.onHalt),
                             Fn(handlers.onValue)>>)

\* fold(handlers)
Effect_fold(handlers) ==
    /\ family = "Effect"
    /\ last' = Called("fold", Tip, HandlersArg(handlers),
                      IF variant = "module"
                      THEN EffectFoldModule(EffectValue(Tip), handlers)
                      ELSE EffectFold(EffectValue(Tip), handlers))
    /\ UNCHANGED <<variant, calls, family, root, steps, iterStore>>

\* runAsync(), awaited by the caller.  The session uses the asynchronous
\* entry points on pipelines composed on the asynchronous track.
Effect_runAsync ==
    /\ family = "Effect"
    /\ variant # "module"
    /\ SameTrack("mapAsync")
    /\ last' = Did("runAsync", Tip, Await(EffectRunAsync(EffectValue(Tip))))
    /\ UNCHANGED <<variant, calls, family, root, steps, iterStore>>

\* foldAsync(handlers), awaited by the caller
Effect_foldAsync(handlers) ==
    /\ family = "Effect"
    /\ variant # "module"
    /\ SameTrack("mapAsync")
    /\ last' = Did("foldAsync", Tip,
                   Await(EffectFoldAsync(EffectValue(Tip), handlers)))
    /\ UNCHANGED <<variant, calls, family, root, steps, iterStore>>

----
(* State *)

\* State.of(runState), State.pure(val), State.get(), State.put(newState)
State_of(rt) ==
    /\ family = "none"
    /\ IF LazyOfThrows(rt)
       THEN /\ last' = Did("of", 0, Throw(MonadError("State.of"), <<>>))
            /\ UNCHANGED <<family, root, iterStore>>
       ELSE /\ family' = "State"
            /\ root' = LazyState(rt.m, rt.p[1])
            /\ iterStore' = <<<<>>>>
            /\ last' = Did("of", 0, NoCalls)
    /\ UNCHANGED <<variant, calls, steps>>

State_map(func)   == family = "State" /\ Derive("map", StateMap(func))
State_chain(func) == family = "State" /\ Derive("chain", StateChain(func))
State_catch(func) ==
    family = "State" /\ variant = "nomod1" /\ Derive("catch", StateCatch(func))

State_mapAsync(func) ==
    family = "State" /\ variant # "module" /\ Derive("mapAsync", StateMapAsync(func))
State_chainAsync(func) ==
    family = "State" /\ variant # "module"
                     /\ Derive("chainAsync", StateChainAsync(func))
State_catchAsync(func) ==
    family = "State" /\ variant = "nomod1"
                     /\ Derive("catchAsync", StateCatchAsync(func))

\* run(state) and fold(state): the same body under two names
State_run(op, state) ==
    /\ family = "State"
    /\ last' = Called(op, Tip, state,
                      IF variant = "module"
                      THEN StateRunModule(StateValue(Tip, state))
                      ELSE StateRun(StateValue(Tip, state)))
    /\ UNCHANGED <<variant, calls, family, root, steps, iterStore>>

\* runAsync(state) and foldAsync(state), awaited by the caller
State_runAsync(op, state) ==
    /\ family = "State"
    /\ variant # "module"
    /\ SameTrack("mapAsync")
    /\ last' = Called(op, Tip, state, Await(StateRunAsync(StateValue(Tip, state))))
    /\ UNCHANGED <<variant, calls, family, root, steps, iterStore>>

\* A reference to State instance i, as a returned value.
Instance(i) == Val("State", i, "instance", <<>>)

\* Variant of chainIter / mapIter that puts the entry at the front of the
\* queue.
QueueAtFront(func, method) ==
    /\ family = "State"
    /\ Composed < MaxSteps
    /\ iterStore' = [iterStore EXCEPT ![Tip + 1] = <<<<func, method>>>> \o @]
    /\ last' = Did(IF method = "c" THEN "chainIter" ELSE "mapIter", Tip,
                   Ret(Instance(Tip), <<>>))
    /\ UNCHANGED <<variant, calls, family, root, steps>>

\* chainIter(func) / mapIter(func): push and return this
Queue(func, method) ==
    /\ family = "State"
    /\ Composed < MaxSteps
    /\ iterStore' = [iterStore EXCEPT ![Tip + 1] = Append(@, <<func, method>>)]
    /\ last' = Did(IF method = "c" THEN "chainIter" ELSE "mapIter", Tip,
                   Ret(Instance(Tip), <<>>))
    /\ UNCHANGED <<variant, calls, family, root, steps>>

State_chainIter(func) == Queue(func, "c")
State_mapIter(func)   == Queue(func, "m")

\* Variant of runIter that also applies the queues of the instances the
\* receiver was derived from, oldest first.
State_runIterInherited(state, clear) ==
    /\ family = "State"
    /\ LET RECURSIVE Upto(_)
           Upto(i) == IF i = 0 THEN <<>> ELSE Upto(i - 1) \o iterStore[i]
           initial == StateValue(Tip, state)
           store == Upto(Tip + 1)
       IN /\ last' = Called("runIter", Tip, state,
                            CASE variant = "nomod1" -> StateRunIter(initial, store)
                              [] variant = "nomod2" -> StateRunIter2(initial, store)
                              [] variant = "module" -> StateRunIterModule(initial, store))
          /\ iterStore' = [iterStore EXCEPT ![Tip + 1] = IterStoreAfter(iterStore[Tip + 1], clear)]
    /\ UNCHANGED <<variant, calls, family, root, steps>>

\* runIter(state, clear)
State_runIter(state, clear) ==
    /\ family = "State"
    /\ LET initial == StateValue(Tip, state)
           store == iterStore[Tip + 1]
       IN /\ last' = Called("runIter", Tip, state,
                            CASE variant = "nomod1" -> StateRunIter(initial, store)
                              [] variant = "nomod2" -> StateRunIter2(initial, store)
                              [] variant = "module" -> StateRunIterModule(initial, store))
          /\ iterStore' = [iterStore EXCEPT ![Tip + 1] =
                                IterStoreAfterRun(last'.out, store, clear)]
    /\ UNCHANGED <<variant, calls, family, root, steps>>

----
(* Simple containers.  The session holds one container and calls map or    *)
(* chain on it; when the call returns a container the session goes on      *)
(* with that one (c.map(f).chain(g)...).                                   *)

SimpleClasses == {"Success", "Fail", "Just", "Nothing"}
SimplePayloads == {Num(5)}
SimpleFns == {"inc", "toJust", "toFail", "toEffect", "throwErr"}

\* Success.of(value), Fail.of(value), Just.of(value), Nothing.of(value)
SimpleOf(cls, value) ==
    CASE cls = "Success" -> Success(value, "of")
      [] cls = "Fail"    -> Fail(value, "of")
      [] cls = "Just"    -> Just(value, "of")
      [] cls = "Nothing" -> Nothing("of")

\* self.map(func) / self.chain(func), by the class of self and the build.
SimpleMap(self, func) ==
    CASE self.k = "Success" -> IF variant = "nomod1" THEN SuccessMap(self, func)
                               ELSE SuccessMap2(self, func)
      [] self.k = "Just"    -> IF variant = "nomod1" THEN JustMap(self, func)
                               ELSE JustMap2(self, func)
      [] self.k = "Fail"    -> FailMap(self, func)
      [] self.k = "Nothing" -> NothingMap(self, func)

SimpleChain(self, func) ==
    CASE self.k = "Success" -> SuccessChain(self, func)
      [] self.k = "Just"    -> JustChain(self, func)
      [] self.k = "Fail"    -> FailChain(self, func)
      [] self.k = "Nothing" -> NothingChain(self, func)

Simple_of(cls, value) ==
    /\ family = "none"
    /\ family' = "Simple"
    /\ root' = SimpleOf(cls, value)
    /\ last' = Did("of", 0, NoCalls)
    /\ UNCHANGED <<variant, calls, steps, iterStore>>

\* One call on the current container, with outcome `out`.
SimpleCall(op, func, out) ==
    /\ family = "Simple"
    /\ Tip < MaxSteps
    /\ last' = Called(op, Tip, root, out)
    /\ steps' = Append(steps, Step(op, func))
    /\ root' = IF out.t = "ret" /\ isSMonad(out.v) THEN out.v ELSE root
    /\ UNCHANGED <<variant, calls, family, iterStore>>

Simple_map(func)   == SimpleCall("map", func, SimpleMap(root, func))
Simple_chain(func) == SimpleCall("chain", func, SimpleChain(root, func))

----
Next ==
    \/ \E effect \in {Fn(t) : t \in EffectThunks} \cup {Num(5)} : Effect_of(effect)
    \/ \E val \in PureValues : Effect_pure(val)
    \/ \E func \in EMapFns : Effect_map(func)
    \/ \E func \in EChainFns : Effect_chain(func)
    \/ \E func \in ECatchFns : Effect_catch(func)
    \/ \E func \in EMapAsyncFns : Effect_mapAsync(func)
    \/ \E func \in EChainAsyncFns : Effect_chainAsync(func)
    \/ \E func \in ECatchAsyncFns : Effect_catchAsync(func)
    \/ Effect_run
    \/ Effect_runAsync
    \/ \E handlers \in FoldHandlers : Effect_fold(handlers)
    \/ \E handlers \in FoldHandlers : Effect_foldAsync(handlers)
    \/ \E rt \in StateRoots \cup {Num(5)} : State_of(rt)
    \/ \E func \in SMapFns : State_map(func)
    \/ \E func \in SChainFns : State_chain(func)
    \/ \E func \in SCatchFns : State_catch(func)
    \/ \E func \in SMapAsyncFns : State_mapAsync(func)
    \/ \E func \in SChainAsyncFns : State_chainAsync(func)
    \/ \E func \in SCatchAsyncFns : State_catchAsync(func)
    \/ \E op \in {"run", "fold"}, state \in InitStates : State_run(op, state)
    \/ \E op \in {"runAsync", "foldAsync"}, state \in InitStates :
          State_runAsync(op, state)
    \/ \E func \in IterChainFns : State_chainIter(func)
    \/ \E func \in IterMapFns : State_mapIter(func)
    \/ \E state \in InitStates, clear \in BOOLEAN : State_runIter(state, clear)
    \/ \E cls \in SimpleClasses, value \in SimplePayloads : Simple_of(cls, value)
    \/ \E func \in SimpleFns : Simple_map(func)
    \/ \E func \in SimpleFns : Simple_chain(func)

Spec == Init /\ [][Next]_vars

--------------------------------------------------------------------------
(* A session on State alone, synchronous track, run from two different     *)
(* initial states and with a step function that throws.                    *)

ThreadStates  == {Num(1), Num(2)}
TMapFns       == {"inc", "throwErr", "toPromise"}
TChainFns     == {"toState", "inc"}
TCatchFns     == {"toState", "inc"}
TIterMapFns   == {"inc", "toPromise"}
TIterChainFns == {"toState", "toStateAsync"}

NextThread ==
    \/ \E rt \in StateRoots : State_of(rt)
    \/ \E func \in TMapFns : State_map(func)
    \/ \E func \in TChainFns : State_chain(func)
    \/ \E func \in TCatchFns : State_catch(func)
    \/ \E op \in {"run", "fold"}, state \in ThreadStates : State_run(op, state)
    \/ \E func \in TIterChainFns : State_chainIter(func)
    \/ \E func \in TIterMapFns : State_mapIter(func)
    \/ \E state \in ThreadStates, clear \in BOOLEAN : State_runIter(state, clear)

SpecThread == Init /\ [][NextThread]_vars

--------------------------------------------------------------------------
(* A session on the simple containers alone, with the accessors and the    *)
(* recovery hooks.                                                         *)

XPayloads       == {Num(5), Fn("inc"), Fn("ofJust")}
XMapFns         == {"inc", "dbl", "toJust", "throwErr"}
XChainFns       == {"ofSuccess", "ofJust", "toFail", "inc"}
XHookMapFns     == {"inc", "toJust", "toEffect", "throwErr"}
XHookChainFns   == {"ofJust", "toFail", "inc", "throwErr"}
\* The values passed to getOrElse, by name.
XDefaults       == {"nine", "undef"}
ArgValue(d)     == IF d = "nine" THEN Num(9) ELSE Undefined

\* The arguments of Maybe.fromNullable: the value, and the predicate (null
\* when it is left out, a function, or something that is no function).
XNullables      == {Null, Undefined, Num(0), EmptyStr, Num(5)}
XPredicates     == {Null, Fn("isZero"), Fn("one"), Fn("never"), Fn("throwErr"), Num(1)}
\* The functions given to Either.try.
XTried          == {"five", "throw", "async", "viol"}
\* The arguments of a call, as recorded in `last`.
Args(a, b)      == Val("args", 0, "", <<a, b>>)

\* The arguments passed to ap, by name: four containers made by the caller,
\* a plain number and an Effect.
XApArgs         == {"success5", "fail5", "just5", "nothing", "five", "effect"}
ApArg(a) ==
    CASE a = "success5" -> Success(Num(5), "arg")
      [] a = "fail5"    -> Fail(Num(5), "arg")
      [] a = "just5"    -> Just(Num(5), "arg")
      [] a = "nothing"  -> Nothing("arg")
      [] a = "five"     -> Num(5)
      [] a = "effect"   -> LazyEffect("five", Undefined)

\* self.ap(valueContainer), by the class of self.
SimpleAp(self, valueContainer) ==
    CASE self.k = "Success" -> SuccessAp(self, valueContainer)
      [] self.k = "Just"    -> JustAp(self, valueContainer)
      [] self.k = "Fail"    -> FailAp(self, valueContainer)
      [] self.k = "Nothing" -> NothingAp(self, valueContainer)

\* self.result() / self.getOrElse(value), by the class of self.
SimpleResult(self) ==
    CASE self.k = "Success" -> SuccessResult(self)
      [] self.k = "Just"    -> JustResult(self)
      [] self.k = "Fail"    -> FailResult(self)
      [] self.k = "Nothing" -> NothingResult(self)

SimpleGetOrElse(self, value) ==
    CASE self.k = "Success" -> SuccessGetOrElse(self, value)
      [] self.k = "Just"    -> JustGetOrElse(self, value)
      [] self.k = "Fail"    -> FailGetOrElse(self, value)
      [] self.k = "Nothing" -> NothingGetOrElse(self, value)

\* self.onFailChain(func) ... self.onNothingMap(func), by the class of self
\* and the build.
SimpleOnFailChain(self, func) ==
    CASE self.k = "Success" -> SuccessOnFailChain(self, func)
      [] self.k = "Just"    -> JustOnFailChain(self, func)
      [] self.k = "Fail"    -> FailOnFailChain(self, func)
      [] self.k = "Nothing" -> NothingOnFailChain(self, func)

SimpleOnFailMap(self, func) ==
    CASE self.k = "Success" -> SuccessOnFailMap(self, func)
      [] self.k = "Just"    -> JustOnFailMap(self, func)
      [] self.k = "Fail"    -> IF variant = "nomod1" THEN FailOnFailMap(self, func)
                               ELSE FailOnFailMap2(self, func)
      [] self.k = "Nothing" -> NothingOnFailMap(self, func)

SimpleOnNothingChain(self, func) ==
    CASE self.k = "Success" -> SuccessOnNothingChain(self, func)
      [] self.k = "Just"    -> JustOnNothingChain(self, func)
      [] self.k = "Fail"    -> FailOnNothingChain(self, func)
      [] self.k = "Nothing" -> NothingOnNothingChain(self, func)

SimpleOnNothingMap(self, func) ==
    CASE self.k = "Success" -> SuccessOnNothingMap(self, func)
      [] self.k = "Just"    -> JustOnNothingMap(self, func)
      [] self.k = "Fail"    -> FailOnNothingMap(self, func)
      [] self.k = "Nothing" -> IF variant = "nomod1"
                               THEN NothingOnNothingMap(self, func)
                               ELSE NothingOnNothingMap2(self, func)

Simple_result == SimpleCall("result", "", SimpleResult(root))
Simple_getOrElse(d) ==
    SimpleCall("getOrElse", d, SimpleGetOrElse(root, ArgValue(d)))
Simple_onFailChain(func) ==
    SimpleCall("onFailChain", func, SimpleOnFailChain(root, func))
Simple_onFailMap(func) ==
    SimpleCall("onFailMap", func, SimpleOnFailMap(root, func))
Simple_onNothingChain(func) ==
    SimpleCall("onNothingChain", func, SimpleOnNothingChain(root, func))
Simple_onNothingMap(func) ==
    SimpleCall("onNothingMap", func, SimpleOnNothingMap(root, func))

\* A static factory that may throw: on return the session holds the
\* container, on a throw it holds none.
SimpleMake(op, arg, out) ==
    /\ family = "none"
    /\ family' = IF out.t = "ret" THEN "Simple" ELSE "none"
    /\ root' = IF out.t = "ret" THEN out.v ELSE root
    /\ last' = Called(op, 0, arg, out)
    /\ UNCHANGED <<variant, calls, steps, iterStore>>

Simple_fromNullable(value, treatAsNull) ==
    SimpleMake("fromNullable", Args(value, treatAsNull),
               IF variant = "module"
               THEN MaybeFromNullableModule(value, treatAsNull)
               ELSE MaybeFromNullable(value, treatAsNull))

\* The module build defines no Either.try.
Simple_try(testedFunc) ==
    /\ variant # "module"
    /\ SimpleMake("try", Args(Fn(testedFunc), Undefined),
                  IF variant = "nomod1"
                  THEN EitherTry(Val("function", 0, testedFunc, <<Undefined>>))
                  ELSE EitherTry2(Val("function", 0, testedFunc, <<Undefined>>)))

Simple_ap(a) == SimpleCall("ap", a, SimpleAp(root, ApArg(a)))

NextSimple ==
    \/ \E cls \in SimpleClasses, value \in XPayloads : Simple_of(cls, value)
    \/ \E func \in XMapFns : Simple_map(func)
    \/ \E func \in XChainFns : Simple_chain(func)
    \/ Simple_result
    \/ \E d \in XDefaults : Simple_getOrElse(d)
    \/ \E func \in XHookChainFns : Simple_onFailChain(func)
    \/ \E func \in XHookMapFns : Simple_onFailMap(func)
    \/ \E func \in XHookChainFns : Simple_onNothingChain(func)
    \/ \E func \in XHookMapFns : Simple_onNothingMap(func)
    \/ \E a \in XApArgs : Simple_ap(a)
    \/ \E value \in XNullables, treatAsNull \in XPredicates :
            Simple_fromNullable(value, treatAsNull)
    \/ \E testedFunc \in XTried : Simple_try(testedFunc)

SpecSimple == Init /\ [][NextSimple]_vars

--------------------------------------------------------------------------
(* A session on the synchronous Effect with fold: computations of every    *)
(* result shape and handlers objects with some handlers left out.          *)

FThunks    == {"five", "succ5", "fail", "none", "lazy", "throw"}
FMapFns    == {"inc", "toJust", "toFail"}
FChainFns  == {"toEffect", "toEffectJust"}
FHandlers  == {[onRight |-> "", onHalt |-> "", onValue |-> ""],
               [onRight |-> "inc", onHalt |-> "", onValue |-> "dbl"],
               [onRight |-> "", onHalt |-> "toJust", onValue |-> ""],
               [onRight |-> "inc", onHalt |-> "toJust", onValue |-> "toFail"],
               [onRight |-> "throwErr", onHalt |-> "throwErr", onValue |-> "throwErr"]}

NextFold ==
    \/ \E t \in FThunks : Effect_of(Fn(t))
    \/ \E func \in FMapFns : Effect_map(func)
    \/ \E func \in FChainFns : Effect_chain(func)
    \/ Effect_run
    \/ \E handlers \in FHandlers : Effect_fold(handlers)

SpecFold == Init /\ [][NextFold]_vars

--------------------------------------------------------------------------
(* Overlapping runAsync calls.  An async closure runs until its next       *)
(* `await`, and is resumed once the awaited promise has settled; between   *)
(* two resumptions of one call any other call may run.                     *)

MaxCalls  == 2
ORoots    == {"count", "countAsync", "fail"}
OMapFns   == {"inc", "toPromise", "toJust"}
OChainFns == {"toEffect", "toEffectAsync"}

\* What a closure does when it is resumed: it suspends at its next await
\* ("func": await asyncFunc(out), "effect": await resultEff._value()) or
\* returns, and r is the outcome awaited or returned, with the user
\* functions invoked on the way.
Suspend(await, r) == [next |-> await, r |-> r]
Return(r)         == [next |-> "return", r |-> r]

\* mapAsync, chainAsync: from `let out = await this._value()` up to the
\* next await.  out0 is what the await gave.
EffectAsyncValue(out0, asyncFunc) ==
    IF out0.t = "throw" THEN Return(out0)
    ELSE IF isHaltSMonad(out0.v) THEN Return(out0)
    ELSE LET out == IF isRightSMonad(out0.v) THEN unwrapSMonad(out0.v)
                    ELSE out0.v
             called == UserFn(asyncFunc, out)
         IN IF called.t = "throw" THEN Return(called)
            ELSE Suspend("func", called)

\* mapAsync: from `const result = await asyncFunc(out)` to the return.
EffectMapAsyncFunc(result) ==
    IF result.t = "throw" THEN Return(result)
    ELSE IF panicOnLazyMapViolation(result.v)
         THEN Return(Throw(MonadError("Effect.mapAsync"), <<>>))
    ELSE IF isRightSMonad(result.v)
         THEN Return(Ret(unwrapSMonad(result.v), <<>>))
    ELSE Return(result)

\* chainAsync: from `const resultEff = await asyncFunc(out)` to
\* `await resultEff._value()`.
EffectChainAsyncFunc(resultEff) ==
    IF resultEff.t = "throw" THEN Return(resultEff)
    ELSE IF panicOnAnotherInstance(resultEff.v, "Effect")
         THEN Return(Throw(MonadError("Effect.chainAsync"), <<>>))
    ELSE LET called == Thunk(resultEff.v)
         IN IF called.t = "throw" THEN Return(called)
            ELSE Suspend("effect", called)

\* chainAsync: from `const result = await resultEff._value()` to the return.
EffectChainAsyncEffect(result) ==
    IF result.t = "throw" THEN Return(result)
    ELSE IF isRightSMonad(result.v)
         THEN Return(Ret(unwrapSMonad(result.v), <<>>))
    ELSE Return(result)

\* The root computation of the session's pipeline at its (n + 1)-th
\* invocation: the counting ones close over a variable they increment.
RootAt(n) ==
    IF root.m \in {"count", "countAsync"} THEN LazyEffect(root.m, Num(n))
    ELSE root

\* A call in flight.  at: the instance runAsync was called on; lvl: the
\* instance whose closure is suspended (at + 1 is runAsync itself, at + 2
\* means the caller has the result); await: the await it is suspended at;
\* pend: the outcome awaited there; trace: the user functions the call has
\* invoked.
InFlight(at, lvl, await, pend, trace) ==
    [at |-> at, lvl |-> lvl, await |-> await, pend |-> pend, trace |-> trace]
Quiet(r) == [r EXCEPT !.log = <<>>]

\* Variant in which the awaited value is kept in one slot shared by the
\* invocations of the closure: the latest call's value is the one read.
AwaitedShared(c) == Await(calls[Len(calls)].pend)
\* What `await` gives call c when it is resumed.
Awaited(c) == Await(calls[c].pend)

\* runAsync() called on the latest instance, not awaited at once.  Every
\* closure down to the root starts and suspends at its first await, which
\* invokes the root computation.  The session makes its overlapping calls
\* on one instance.
Effect_runAsyncCall ==
    /\ family = "Effect"
    /\ variant # "module"
    /\ SameTrack("mapAsync")
    /\ Len(calls) < MaxCalls
    /\ \A c \in 1..Len(calls) : calls[c].at = Tip
    /\ LET called == Thunk(RootAt(Len(calls)))
       IN calls' = Append(calls, InFlight(Tip, 1, "value", Quiet(called),
                                          called.log))
    /\ last' = Did("runAsyncCall", Tip, NoCalls)
    /\ UNCHANGED <<variant, family, root, steps, iterStore>>

\* Call c is resumed at the await it is suspended at.
Resumed(c) ==
    LET me  == calls[c]
        got == Awaited(c)
    IN IF me.lvl = me.at + 1
       \* async runAsync() { return await this._value() }
       THEN Return(got)
       ELSE CASE me.await = "value" ->
                   EffectAsyncValue(got, steps[me.lvl].f)
              [] me.await = "func" ->
                   IF steps[me.lvl].kind = "mapAsync"
                   THEN EffectMapAsyncFunc(got)
                   ELSE EffectChainAsyncFunc(got)
              [] me.await = "effect" -> EffectChainAsyncEffect(got)

Effect_resume(c) ==
    /\ c \in 1..Len(calls)
    /\ calls[c].lvl <= calls[c].at + 1
    /\ LET me   == calls[c]
           step == Resumed(c)
       IN calls' = [calls EXCEPT ![c] =
                      IF step.next = "return"
                      THEN InFlight(me.at, me.lvl + 1, "value",
                                    Quiet(step.r), me.trace \o step.r.log)
                      ELSE InFlight(me.at, me.lvl, step.next,
                                    Quiet(step.r), me.trace \o step.r.log)]
    /\ UNCHANGED <<variant, family, root, steps, iterStore, last>>

NextOverlap ==
    \/ \E t \in ORoots : Effect_of(Fn(t))
    \/ \E func \in OMapFns : Effect_mapAsync(func)
    \/ \E func \in OChainFns : Effect_chainAsync(func)
    \/ Effect_runAsyncCall
    \/ \E c \in 1..MaxCalls : Effect_resume(c)

SpecOverlap == Init /\ [][NextOverlap]_vars

--------------------------------------------------------------------------
(* A session that keeps the instances it derived from and runs any of      *)
(* them, before and after deriving further ones.                           *)

KRoots      == {"five", "succ5", "throw"}
KStateRoots == {Val("function", 0, "step", <<Num(0)>>),
                Val("function", 0, "get", <<Undefined>>)}
KMapFns     == {"inc", "toJust"}
KChainFns   == {"toEffect"}
KSChainFns  == {"toState"}
KCatchFns   == {"inc"}

\* run() and the awaited runAsync() of Effect instance i.
RunOf(i) ==
    IF variant = "module" THEN EffectRunModule(EffectValue(i))
    ELSE EffectRun(EffectValue(i))
RunAsyncOf(i) == Await(EffectRunAsync(EffectValue(i)))

\* run(state) and the awaited runAsync(state) of State instance i.
StateRunOf(i, state) ==
    IF variant = "module" THEN StateRunModule(StateValue(i, state))
    ELSE StateRun(StateValue(i, state))
StateRunAsyncOf(i, state) == Await(StateRunAsync(StateValue(i, state)))

Effect_runOn(i) ==
    /\ family = "Effect"
    /\ i \in 0..Tip
    /\ last' = Did("run", i, RunOf(i))
    /\ UNCHANGED <<variant, calls, family, root, steps, iterStore>>

Effect_runAsyncOn(i) ==
    /\ family = "Effect"
    /\ variant # "module"
    /\ SameTrack("mapAsync")
    /\ i \in 0..Tip
    /\ last' = Did("runAsync", i, RunAsyncOf(i))
    /\ UNCHANGED <<variant, calls, family, root, steps, iterStore>>

State_runOn(i, state) ==
    /\ family = "State"
    /\ i \in 0..Tip
    /\ last' = Called("run", i, state, StateRunOf(i, state))
    /\ UNCHANGED <<variant, calls, family, root, steps, iterStore>>

State_runAsyncOn(i, state) ==
    /\ family = "State"
    /\ variant # "module"
    /\ SameTrack("mapAsync")
    /\ i \in 0..Tip
    /\ last' = Called("runAsync", i, state, StateRunAsyncOf(i, state))
    /\ UNCHANGED <<variant, calls, family, root, steps, iterStore>>

NextKeep ==
    \/ \E t \in KRoots : Effect_of(Fn(t))
    \/ \E func \in KMapFns : Effect_map(func)
    \/ \E func \in KChainFns : Effect_chain(func)
    \/ \E func \in KCatchFns : Effect_catch(func)
    \/ \E func \in KMapFns : Effect_mapAsync(func)
    \/ \E func \in KChainFns : Effect_chainAsync(func)
    \/ \E func \in KCatchFns : Effect_catchAsync(func)
    \/ \E i \in 0..MaxSteps : Effect_runOn(i)
    \/ \E i \in 0..MaxSteps : Effect_runAsyncOn(i)
    \/ \E rt \in KStateRoots : State_of(rt)
    \/ \E func \in KMapFns : State_map(func)
    \/ \E func \in KSChainFns : State_chain(func)
    \/ \E func \in KCatchFns : State_catch(func)
    \/ \E func \in KMapFns : State_mapAsync(func)
    \/ \E func \in KSChainFns : State_chainAsync(func)
    \/ \E func \in KCatchFns : State_catchAsync(func)
    \/ \E i \in 0..MaxSteps, state \in ThreadStates : State_runOn(i, state)
    \/ \E i \in 0..MaxSteps, state \in ThreadStates : State_runAsyncOn(i, state)

SpecKeep == Init /\ [][NextKeep]_vars

--------------------------------------------------------------------------
(* A session on one State with its iteration queue, with queued functions  *)
(* that throw or break a contract.                                         *)

IRoots    == {Val("function", 0, "step", <<Num(0)>>),
              Val("function", 0, "throw", <<Num(0)>>)}
IMapFns   == {"inc", "throwErr", "toEffect"}
IChainFns == {"toState", "inc"}

NextIter ==
    \/ \E rt \in IRoots : State_of(rt)
    \/ \E func \in IChainFns : State_chainIter(func)
    \/ \E func \in IMapFns : State_mapIter(func)
    \/ \E state \in ThreadStates, clear \in BOOLEAN : State_runIter(state, clear)

SpecIter == Init /\ [][NextIter]_vars

--------------------------------------------------------------------------
(* Properties.                                                             *)

BuildOps == {"of", "pure", "map", "chain", "catch", "mapAsync", "chainAsync",
             "catchAsync", "mapIter", "chainIter"}
SyncPipeline  == \A i \in 1..Tip : steps[i].kind \in SyncKinds
AsyncPipeline == \A i \in 1..Tip : steps[i].kind \in AsyncKinds
\* The outcome of the stored computation of instance i (0 the root) in the
\* execution the latest call started.
Stored(i) == IF family = "Effect" THEN EffectValue(i)
             ELSE StateValue(i, last.arg)

\* C1: composing a lazy pipeline runs nothing: a call of of, pure, map,
\* chain, catch, mapAsync, chainAsync, catchAsync, mapIter or chainIter on
\* Effect or State invokes no stored computation and no step function.
C1_NothingRunsWhileComposing ==
    (family # "Simple" /\ last.op \in BuildOps) => last.out.log = <<>>

\* A whole budget of composition steps, the last one queued on a derived
\* State instance, and still nothing invoked.
C1_Witness ==
    /\ family = "State"
    /\ last.op \in {"mapIter", "chainIter"}
    /\ Tip >= 1
    /\ Composed = MaxSteps
    /\ last.out.t = "ret" /\ last.out.log = <<>>

\* The stored computation feeding step i yields a halting simple container.
HaltsAt(i) ==
    LET up == EffectValue(i - 1) IN up.t = "ret" /\ isHaltSMonad(up.v)

\* C2: in a synchronous Effect pipeline, when the computation feeding a map
\* or chain step yields a halting container, run() returns that very
\* container and no function of that step or of a later map / chain step is
\* invoked: the invocations are those made up to the halting value.
C2_ShortCircuit ==
    (family = "Effect" /\ last.op = "run" /\ SyncPipeline) =>
        \A i \in 1..Tip :
            (HaltsAt(i) /\ \A j \in i..Tip : steps[j].kind \in {"map", "chain"})
                => last.out = EffectValue(i - 1)

\* A step produced the halting container and the step after it was skipped.
C2_Witness ==
    /\ family = "Effect" /\ last.op = "run"
    /\ Tip = 2
    /\ ~HaltsAt(1) /\ HaltsAt(2)
    /\ steps[2].kind \in {"map", "chain"}
    /\ last.out.t = "ret" /\ last.out.v = Fail(Num(5), "toFail")

\* What a step function receives for the upstream value v.
Unwrapped(v) == IF isRightSMonad(v) THEN v.p[1] ELSE v

\* C3: in a synchronous Effect pipeline every map / chain step function
\* receives the payload of a continuing container the preceding computation
\* yields, or the value itself when that is plain; when a map function, or
\* the computation of the Effect a chain function returns, yields a
\* continuing container the result of the step is its payload.  So
\* Effect.of(() => Success.of(5)).map(x => Just.of(x + 3))
\*       .chain(x => Effect.of(() => x * 2)).run() is 16.
C3_UnwrapRule ==
    (family = "Effect" /\ last.op = "run" /\ SyncPipeline) =>
      /\ \A i \in 1..Tip :
           LET up == EffectValue(i - 1)
               here == EffectValue(i)
               f == steps[i].f
           IN (/\ steps[i].kind \in {"map", "chain"}
               /\ up.t = "ret"
               /\ isRightSMonad(up.v) \/ (~isMonad(up.v) /\ ~isPromise(up.v)))
              =>
                LET r == UserFn(f, Unwrapped(up.v))
                IN /\ Len(here.log) > Len(up.log)
                   /\ here.log[Len(up.log) + 1] = Call(f, Unwrapped(up.v))
                   /\ (steps[i].kind = "map" /\ r.t = "ret" /\ isRightSMonad(r.v))
                        => here = Ret(r.v.p[1], up.log \o r.log)
                   /\ (/\ steps[i].kind = "chain" /\ r.t = "ret"
                       /\ r.v.k = "Effect"
                       /\ Thunk(r.v).t = "ret" /\ isRightSMonad(Thunk(r.v).v))
                        => here = Ret(Thunk(r.v).v.p[1],
                                      up.log \o r.log \o Thunk(r.v).log)
      /\ (/\ root = LazyEffect("succ5", Undefined)
          /\ steps = <<Step("map", "toJust"), Step("chain", "toEffect")>>)
           => (last.out.t = "ret" /\ last.out.v = Num(16))

\* The example of the documentation has run and returned 16.
C3_Witness ==
    /\ family = "Effect" /\ last.op = "run"
    /\ root = LazyEffect("succ5", Undefined)
    /\ steps = <<Step("map", "toJust"), Step("chain", "toEffect")>>
    /\ last.out = Ret(Num(16), <<Call("succ5", Undefined), Call("toJust", Num(5)),
                                 Call("toEffect", Num(8)), Call("dbl", Undefined)>>)

\* What the caller of the latest entry point observes of outcome r: the
\* caller of runAsync awaits.
Observed(r) == IF last.op = "runAsync" THEN Await(r) ELSE r

\* C4: a MonadError raised anywhere in an Effect or State pipeline reaches
\* the caller of run / runAsync unchanged, through any number of catch /
\* catchAsync steps, and no recovery function is invoked on the way: no
\* invocation follows those made when the error was raised.
C4_MonadErrorReachesCaller ==
    (/\ family \in {"Effect", "State"}
     /\ \/ last.op = "run" /\ SyncPipeline
        \/ last.op = "runAsync" /\ AsyncPipeline)
    => \A i \in 0..Tip :
          LET at == Observed(Stored(i))
          IN (at.t = "throw" /\ isMonadError(at.v)) => last.out = at

\* The root raised a MonadError and two catch steps let it through.
C4_Witness ==
    /\ family = "Effect" /\ last.op = "run"
    /\ Tip = 2
    /\ steps[1].kind = "catch" /\ steps[2].kind = "catch"
    /\ last.out = Throw(MonadError("Nothing.result"), <<Call("viol", Undefined)>>)

\* The invocations of f among those `here` made after those of `up`.
CallsAfter(up, here, f) ==
    {k \in (Len(up.log) + 1)..Len(here.log) :
        here.log[k].m = f /\ here.log[k].k = "call"}

\* Instance i was made by catch(f), its upstream threw the ordinary error
\* e: f is invoked once, with e, and the step's result follows f's value.
Recovers(i) ==
    LET up == EffectValue(i - 1)
        here == EffectValue(i)
        f == steps[i].f
        r == UserFn(f, up.v)
    IN /\ Len(here.log) > Len(up.log)
       /\ here.log[Len(up.log) + 1] = Call(f, up.v)
       /\ Cardinality(CallsAfter(up, here, f)) = 1
       /\ (r.t = "ret" /\ ~isMonad(r.v) /\ ~isPromise(r.v))
            => here = Ret(r.v, up.log \o r.log)
       /\ (r.t = "ret" /\ isRightSMonad(r.v))
            => here = Ret(r.v.p[1], up.log \o r.log)
       /\ (r.t = "ret" /\ r.v.k = "Effect")
            => here = After(up.log \o r.log, Thunk(r.v))

\* C5 as stated: when the computation upstream of Effect.catch(f) throws
\* an ordinary error e, f is invoked exactly once with e and the result is
\* f's plain value, the payload of f's continuing container, or the result
\* of the computation of f's Effect; when the upstream computation does not
\* throw, f is never invoked and the upstream result is returned as is.
C5_CatchAsStated ==
    (family = "Effect" /\ last.op = "run" /\ SyncPipeline) =>
        \A i \in 1..Tip :
            steps[i].kind = "catch" =>
                LET up == EffectValue(i - 1)
                IN /\ (up.t = "throw" /\ ~isMonadError(up.v)) => Recovers(i)
                   /\ up.t = "ret" => EffectValue(i) = up

\* C5, amended: as above, but the upstream result is returned as is only
\* when it is not a promise; on a promise the catch step raises a contract
\* violation (and f is not invoked).
C5_Catch ==
    (family = "Effect" /\ last.op = "run" /\ SyncPipeline) =>
        \A i \in 1..Tip :
            steps[i].kind = "catch" =>
                LET up == EffectValue(i - 1)
                    here == EffectValue(i)
                IN /\ (up.t = "throw" /\ ~isMonadError(up.v)) => Recovers(i)
                   /\ (up.t = "ret" /\ ~isPromise(up.v)) => here = up
                   /\ (up.t = "ret" /\ isPromise(up.v)) =>
                        /\ here.t = "throw" /\ isMonadError(here.v)
                        /\ here.log = up.log

\* The root threw an ordinary error, catch(e => Just.of(...)) recovered and
\* run() returned the payload of the container.
C5_Witness ==
    /\ family = "Effect" /\ last.op = "run"
    /\ root = LazyEffect("throw", Undefined)
    /\ steps = <<Step("catch", "toJust")>>
    /\ last.out = Ret(Str, <<Call("throw", Undefined),
                              Call("toJust", Error("boom"))>>)

\* C6 as stated: Effect.run() and State.run(s) raise a contract violation
\* whenever the immediate result of the stored computation is a promise,
\* and otherwise return the raw result unchanged.
C6_RunRejectsPromise ==
    (family \in {"Effect", "State"} /\ last.op = "run") =>
        LET res == Stored(Tip)
        IN res.t = "ret" =>
             IF isPromise(res.v)
             THEN last.out.t = "throw" /\ isMonadError(last.out.v)
             ELSE last.out = res

\* Build "module": run() returned the promise of an async computation.
C6_Witness ==
    /\ variant = "module"
    /\ family = "Effect" /\ last.op = "run"
    /\ Tip = 0
    /\ last.out.t = "ret" /\ isPromise(last.out.v)

SyncEntries == {"run", "fold", "runIter"}
\* The execution the latest call started saw a promise returned by the
\* root computation or by a step function.
PromiseReturned ==
    \/ Stored(0).t = "ret" /\ isPromise(Stored(0).v)
    \/ \E k \in 1..Len(last.out.log) : last.out.log[k].m = "toPromise"

\* C7 as stated: whenever the root computation or a step function of a
\* synchronous pipeline returns a promise, executing the pipeline through
\* run / fold / runIter raises a MonadError: it neither returns a result
\* nor fails with another kind of error.
C7_NoSilentPromise ==
    (/\ family \in {"Effect", "State"}
     /\ last.op \in SyncEntries
     /\ SyncPipeline
     /\ PromiseReturned)
    => (last.out.t = "throw" /\ isMonadError(last.out.v))

\* Build "nomod1": runIter returned a pair whose value is the promise a
\* function queued with mapIter returned.
C7_Witness ==
    /\ variant = "nomod1"
    /\ family = "State" /\ last.op = "runIter"
    /\ last.out.t = "ret"
    /\ last.out.v.k = "pair" /\ isPromise(last.out.v.p[1])

StateEntries == {"run", "fold", "runIter", "runAsync", "foldAsync"}
MapFns == SMapFns \cup SMapAsyncFns \cup IterMapFns
\* The latest call returned a pair whose value is what the last function
\* invoked, one given to map / mapAsync / mapIter, returned.
ValueFromMap ==
    /\ last.out.t = "ret" /\ last.out.v.k = "pair"
    /\ Len(last.out.log) > 0
    /\ LET c == last.out.log[Len(last.out.log)]
       IN /\ c.m \in MapFns
          /\ UserFn(c.m, c.p[1]).t = "ret"
          /\ UserFn(c.m, c.p[1]).v = last.out.v.p[1]

\* C8 as stated: no run of a State pipeline returns a pair whose value was
\* produced by a map / mapAsync / mapIter step and is a container, simple
\* or lazy.
C8_StateValuesPlain ==
    (/\ family = "State"
     /\ last.op \in StateEntries
     /\ ValueFromMap)
    => ~isMonad(last.out.v.p[1])

\* Build "nomod1": run returned a pair whose value is the Just that the
\* function given to map returned.
C8_Witness ==
    /\ variant = "nomod1"
    /\ family = "State" /\ last.op = "run"
    /\ Tip = 1 /\ steps[1] = Step("map", "toJust")
    /\ last.out.t = "ret"
    /\ last.out.v.k = "pair" /\ last.out.v.p[1].k = "Just"

Raised(out) == out.t = "throw" /\ isMonadError(out.v)

\* C9: Success.chain(f) and Just.chain(f) raise a MonadError when f returns
\* anything but a simple container, and return f's container otherwise;
\* executing Effect.chain(f) raises one when f returns anything but an
\* Effect, and otherwise uses the result of that Effect's computation;
\* executing State.chain(f) raises one when f returns anything but a State,
\* and otherwise uses the pair of that State's transition.
C9_ChainShape ==
    /\ (family = "Simple" /\ last.op = "chain" /\ isRightSMonad(last.arg)) =>
          LET r == UserFn(steps[Tip].f, last.arg.p[1])
          IN r.t = "ret" =>
               IF isSMonad(r.v) THEN last.out = r
               ELSE Raised(last.out) /\ last.out.log = r.log
    /\ (/\ family = "Effect" /\ last.op = "run" /\ SyncPipeline
        /\ Tip > 0 /\ steps[Tip].kind = "chain") =>
          LET up == EffectValue(Tip - 1)
          IN (up.t = "ret" /\ ~isHaltSMonad(up.v) /\ ~isPromise(up.v)) =>
               LET r == UserFn(steps[Tip].f, Unwrapped(up.v))
                   c == Thunk(r.v)
               IN r.t = "ret" =>
                    IF r.v.k = "Effect"
                    THEN (c.t = "ret" /\ ~isPromise(c.v)) =>
                            last.out = Ret(Unwrapped(c.v),
                                           up.log \o r.log \o c.log)
                    ELSE Raised(last.out) /\ last.out.log = up.log \o r.log
    /\ (/\ family = "State" /\ last.op = "run" /\ SyncPipeline
        /\ Tip > 0 /\ steps[Tip].kind = "chain") =>
          LET up == StateValue(Tip - 1, last.arg)
          IN (up.t = "ret" /\ up.v.k = "pair") =>
               LET r == UserFn(steps[Tip].f, up.v.p[1])
                   c == Transition(r.v, up.v.p[2])
               IN r.t = "ret" =>
                    IF r.v.k = "State"
                    THEN (c.t = "ret" /\ ~isPromise(c.v)) =>
                            last.out = Ret(c.v, up.log \o r.log \o c.log)
                    ELSE Raised(last.out) /\ last.out.log = up.log \o r.log

\* Executing Effect.chain(f) with f returning a State raised the violation.
C9_Witness ==
    /\ family = "Effect" /\ last.op = "run"
    /\ Tip = 1 /\ steps[1] = Step("chain", "toState")
    /\ root = LazyEffect("five", Undefined)
    /\ last.out = Throw(MonadError("Effect.chain"),
                        <<Call("five", Undefined), Call("toState", Num(5))>>)

\* Executing map(f) on Effect or State raises when f returns a lazy
\* container.
LazyMapRejects ==
    /\ (/\ family = "Effect" /\ last.op = "run" /\ SyncPipeline
        /\ Tip > 0 /\ steps[Tip].kind = "map") =>
          LET up == EffectValue(Tip - 1)
          IN (up.t = "ret" /\ ~isHaltSMonad(up.v) /\ ~isPromise(up.v)) =>
               LET r == UserFn(steps[Tip].f, Unwrapped(up.v))
               IN (r.t = "ret" /\ isLMonad(r.v)) =>
                    (Raised(last.out) /\ last.out.log = up.log \o r.log)
    /\ (/\ family = "State" /\ last.op = "run" /\ SyncPipeline
        /\ Tip > 0 /\ steps[Tip].kind = "map") =>
          LET up == StateValue(Tip - 1, last.arg)
          IN (up.t = "ret" /\ up.v.k = "pair") =>
               LET r == UserFn(steps[Tip].f, up.v.p[1])
               IN (r.t = "ret" /\ isLMonad(r.v)) =>
                    (Raised(last.out) /\ last.out.log = up.log \o r.log)

\* C10 as stated: on each of Success, Just, Fail and Nothing, map(f) raises
\* a MonadError when f returns a simple container; executing map(f) on
\* Effect or State raises one when f returns a lazy container.
C10_MapRejectsAsStated ==
    /\ (family = "Simple" /\ last.op = "map") =>
          LET r == UserFn(steps[Tip].f, last.arg.p[1])
          IN (r.t = "ret" /\ isSMonad(r.v)) => Raised(last.out)
    /\ LazyMapRejects

\* C10, amended: on Success and Just, map(f) raises a MonadError when f
\* returns a simple container; on Fail and Nothing, map(f) never invokes f
\* and returns the receiver itself; executing map(f) on Effect or State
\* raises a MonadError when f returns a lazy container.
C10_MapRejects ==
    /\ (family = "Simple" /\ last.op = "map" /\ isRightSMonad(last.arg)) =>
          LET r == UserFn(steps[Tip].f, last.arg.p[1])
          IN (r.t = "ret" /\ isSMonad(r.v)) =>
               (Raised(last.out) /\ last.out.log = r.log)
    /\ (family = "Simple" /\ last.op = "map" /\ isHaltSMonad(last.arg)) =>
          last.out = Ret(last.arg, <<>>)
    /\ LazyMapRejects

\* Fail.of(5).map(x => Just.of(x + 3)) returned the receiver.
C10_Witness ==
    /\ family = "Simple" /\ last.op = "map"
    /\ last.arg = Fail(Num(5), "of")
    /\ steps[Tip].f = "toJust"
    /\ last.out = Ret(Fail(Num(5), "of"), <<>>)

\* C11: State composition threads the state left to right.  For the
\* predecessor's pair [v, s1] on the initial state s: map(f) yields
\* [f(v), s1]; chain(f) yields what the transition of the State f(v) yields
\* on s1; run(s) returns the pair of the latest instance.  So
\* State.pure(0).map(x => x + 1).chain(x => State.of(s => [x + 2, s * 10]))
\* .run(1) is [3, 10], State.pure(v).run(s) = [v, s],
\* State.get().run(s) = [s, s] and State.put(t).run(s) = [null, t].
C11_StateThreading ==
    (family = "State" /\ last.op = "run") =>
      /\ \A i \in 1..Tip :
           LET up == StateValue(i - 1, last.arg)
               here == StateValue(i, last.arg)
           IN (up.t = "ret" /\ up.v.k = "pair") =>
                LET v == up.v.p[1]
                    s1 == up.v.p[2]
                    r == UserFn(steps[i].f, v)
                IN /\ (/\ steps[i].kind = "map" /\ r.t = "ret"
                       /\ ~isMonad(r.v) /\ ~isPromise(r.v))
                        => here = Ret(Pair(r.v, s1), up.log \o r.log)
                   /\ (steps[i].kind = "chain" /\ r.t = "ret" /\ r.v.k = "State")
                        => here = After(up.log \o r.log, Transition(r.v, s1))
      /\ (Stored(Tip).t = "ret" /\ Stored(Tip).v.k = "pair")
           => last.out = Stored(Tip)
      /\ (/\ root = LazyState("pure", Num(0))
          /\ steps = <<Step("map", "inc"), Step("chain", "toState")>>
          /\ last.arg = Num(1))
           => (last.out.t = "ret" /\ last.out.v = Pair(Num(3), Num(10)))
      /\ (Tip = 0 /\ root.m = "pure")
           => (last.out.t = "ret" /\ last.out.v = Pair(root.p[1], last.arg))
      /\ (Tip = 0 /\ root.m = "get")
           => (last.out.t = "ret" /\ last.out.v = Pair(last.arg, last.arg))
      /\ (Tip = 0 /\ root.m = "put")
           => (last.out.t = "ret" /\ last.out.v = Pair(Null, root.p[1]))

\* The documented State example has run on 1 and returned [3, 10].
C11_Witness ==
    /\ family = "State" /\ last.op = "run"
    /\ root = LazyState("pure", Num(0))
    /\ steps = <<Step("map", "inc"), Step("chain", "toState")>>
    /\ last.arg = Num(1)
    /\ last.out = Ret(Pair(Num(3), Num(10)),
                      <<Call("pure", Num(1)), Call("inc", Num(0)),
                        Call("toState", Num(1)), Call("step", Num(1))>>)

\* C12: State.catch(f) recovers with the original input.  When the
\* predecessor throws an ordinary error on the input state s, f is invoked
\* once, with s itself, and when f returns a State the step yields what
\* that State's transition yields on s; when the predecessor returns a
\* pair, f is not invoked and that pair is the step's result.
C12_CatchOriginalState ==
    (family = "State" /\ last.op = "run") =>
        \A i \in 1..Tip :
            steps[i].kind = "catch" =>
                LET up == StateValue(i - 1, last.arg)
                    here == StateValue(i, last.arg)
                    f == steps[i].f
                    r == UserFn(f, last.arg)
                IN /\ (up.t = "throw" /\ ~isMonadError(up.v)) =>
                        /\ Len(here.log) > Len(up.log)
                        /\ here.log[Len(up.log) + 1] = Call(f, last.arg)
                        /\ Cardinality(CallsAfter(up, here, f)) = 1
                        /\ (r.t = "ret" /\ r.v.k = "State") =>
                              here = After(up.log \o r.log,
                                           Transition(r.v, last.arg))
                   /\ (up.t = "ret" /\ up.v.k = "pair") => here = up

\* s => [2, s * 10] ran on 2, the map step threw, and the recovery function
\* got 2, not 20; the State it returned ran on 2.
C12_Witness ==
    /\ family = "State" /\ last.op = "run"
    /\ root = LazyState("step", Num(0))
    /\ steps = <<Step("map", "throwErr"), Step("catch", "toState")>>
    /\ last.arg = Num(2)
    /\ last.out = Ret(Pair(Num(4), Num(20)),
                      <<Call("step", Num(2)), Call("throwErr", Num(2)),
                        Call("toState", Num(2)), Call("step", Num(2))>>)

\* The transition of the State made from the one yielding `initial` by
\* applying, for the first k entries of the queue `store` in order, map for
\* an entry queued with mapIter and chain for one queued with chainIter.
RECURSIVE NestedValue(_, _, _)
NestedValue(initial, store, k) ==
    IF k = 0 THEN initial
    ELSE LET up == NestedValue(initial, store, k - 1)
             func == store[k][1]
         IN IF store[k][2] = "m"
            THEN CASE variant = "nomod1" -> StateMapNew(up, func)
                   [] variant = "nomod2" -> StateMapNew2(up, func)
                   [] variant = "module" -> StateMapNewModule(up, func)
            ELSE IF variant = "module" THEN StateChainNewModule(up, func)
                 ELSE StateChainNew(up, func)
\* run(state) on that State.
NestedRun(initial, store) ==
    LET res == NestedValue(initial, store, Len(store))
    IN IF variant = "module" THEN StateRunModule(res) ELSE StateRun(res)
\* Two outcomes agree: the same returned value, or an error of the same
\* kind.
SameResult(a, b) ==
    /\ a.t = b.t
    /\ IF a.t = "ret" THEN a.v = b.v ELSE a.v.k = b.v.k

\* The transition of a State proper: it throws or returns a pair.
ProperState(initial) == initial.t = "throw" \/ initial.v.k = "pair"

\* C13 as stated: runIter(state) on a State with queued mapIter / chainIter
\* steps ends as run(state) does on the State built with the corresponding
\* map / chain calls in the same order: the same final pair, and the same
\* contract violations.
C13_RunIterAsNested ==
    [][(last'.op = "runIter" /\ ProperState(StateValue(Tip, last'.arg))) =>
         SameResult(last'.out,
                    NestedRun(StateValue(Tip, last'.arg), iterStore[Tip + 1]))]_vars

\* runIter on a proper State failed with a TypeError on a queued chainIter
\* step whose State has an async transition.
C13_Witness ==
    /\ family = "State" /\ last.op = "runIter"
    /\ variant = "nomod1"
    /\ ProperState(Stored(Tip))
    /\ last.out.t = "throw" /\ last.out.v = TypeError
    /\ Len(last.out.log) > 0
    /\ last.out.log[Len(last.out.log)] = Call("async", last.arg)

\* run(state) on the latest instance.
RunOutcome(state) ==
    IF variant = "module" THEN StateRunModule(StateValue(Tip, state))
    ELSE StateRun(StateValue(Tip, state))

\* C14: after runIter(state) with clear = true the queue of the instance is
\* empty, and a runIter that finds the queue empty returns exactly what run
\* returns on the same state (on a State proper); after
\* runIter(state, false) the queue is unchanged, same steps in the same
\* order.
C14_QueueClearing ==
    [][/\ \A state \in ThreadStates :
            State_runIter(state, TRUE) => iterStore'[Tip + 1] = <<>>
       /\ \A state \in ThreadStates :
            State_runIter(state, FALSE) => iterStore' = iterStore
       /\ (/\ last'.op = "runIter"
           /\ iterStore[Tip + 1] = <<>>
           /\ ProperState(StateValue(Tip, last'.arg)))
            => last'.out = RunOutcome(last'.arg)]_vars

\* runIter applied the two queued steps to State.pure(0) and left the
\* queue empty.
C14_Witness ==
    /\ family = "State" /\ last.op = "runIter"
    /\ Tip = 0 /\ root = LazyState("pure", Num(0))
    /\ iterStore = << <<>> >>
    /\ last.out = Ret(Pair(Num(3), Num(20)),
                      <<Call("pure", Num(2)), Call("inc", Num(0)),
                        Call("toState", Num(1)), Call("step", Num(2))>>)

\* C15: the iteration queue is private to its owner.  chainIter(f) and
\* mapIter(f) on instance X return X itself, create no instance and append
\* exactly one entry at the end of X's queue; the queue of an instance
\* changes only in a chainIter, mapIter or runIter call on that very
\* instance, so not in map / chain / catch / run on it nor in any call on
\* an instance derived from it; every new instance (of / pure / get / put /
\* map / chain / catch) starts with an empty queue.
C15_QueuePrivate ==
    [][/\ \A func \in TIterChainFns \cup TIterMapFns, method \in {"c", "m"} :
            Queue(func, method) =>
                /\ last'.out = Ret(Instance(Tip), <<>>)
                /\ steps' = steps
                /\ iterStore'[Tip + 1] = Append(iterStore[Tip + 1], <<func, method>>)
       /\ \A i \in 1..Len(iterStore) :
            iterStore'[i] # iterStore[i] =>
                /\ last'.op \in {"chainIter", "mapIter", "runIter"}
                /\ last'.at = i - 1
       /\ Len(steps') > Len(steps) =>
            /\ Len(iterStore') = Len(steps') + 1
            /\ iterStore'[Len(steps') + 1] = <<>>
       /\ (family = "none" /\ family' = "State") => iterStore' = << <<>> >>]_vars

\* X holds a queued step, Y = X.map(...) was derived from X and run with
\* runIter: X's queue is as it was and Y's is empty.
C15_Witness ==
    /\ family = "State" /\ last.op = "runIter"
    /\ Tip = 1 /\ last.at = 1
    /\ iterStore = << << <<"inc", "m">> >>, <<>> >>
    /\ last.out.t = "ret"

\* runIter(state) on the latest instance, with `store` as its queue.
RunIterOutcome(state, store) ==
    LET initial == StateValue(Tip, state)
    IN CASE variant = "nomod1" -> StateRunIter(initial, store)
         [] variant = "nomod2" -> StateRunIter2(initial, store)
         [] variant = "module" -> StateRunIterModule(initial, store)

\* Some instance the latest one was derived from holds a queued step.
AncestorQueued == \E i \in 1..Tip : iterStore[i] # <<>>

\* C16: queued steps take effect only in runIter of the instance that owns
\* them.  run(s) and fold(s) on an instance return what the pipeline alone
\* determines, whatever the queues hold, and leave every queue alone; on an
\* instance Y derived by map / chain / catch from instances with queued
\* steps, runIter(s) applies Y's own queue only, so that with an empty own
\* queue it returns what Y.run(s) returns and no queued function of an
\* ancestor is invoked.
C16_QueueOnlyInOwnRunIter ==
    [][/\ last'.op \in {"run", "fold"} =>
            /\ last'.out = RunOutcome(last'.arg)
            /\ iterStore' = iterStore
       /\ (last'.op = "runIter" /\ AncestorQueued) =>
            /\ last'.out = RunIterOutcome(last'.arg, iterStore[Tip + 1])
            /\ (iterStore[Tip + 1] = <<>> /\ ProperState(StateValue(Tip, last'.arg)))
                 => last'.out = RunOutcome(last'.arg)
            /\ \A i \in 1..Tip : iterStore'[i] = iterStore[i]]_vars

\* X = State.pure(0) holds a queued mapIter(inc), Y = X.chain(toState) was
\* run: the result is that of the chain alone, inc was never invoked and
\* X's queue still holds its step.
C16_Witness ==
    /\ family = "State" /\ last.op = "run"
    /\ Tip = 1 /\ steps[1].kind = "chain" /\ steps[1].f = "toState"
    /\ root = LazyState("pure", Num(0))
    /\ iterStore = << << <<"inc", "m">> >>, <<>> >>
    /\ last.out.t = "ret"
    /\ \A k \in 1..Len(last.out.log) : last.out.log[k].m # "inc"

\* C17: halting containers are inert under map and chain.  For h a Fail or
\* a Nothing and any function f (returning a plain value, a simple or a lazy
\* container, or throwing), h.map(f) and h.chain(f) return h itself, the
\* same object, and f is never invoked.
C17_HaltInert ==
    (/\ family = "Simple" /\ last.op \in {"map", "chain"}
     /\ isHaltSMonad(last.arg)) =>
        /\ last.out = Ret(last.arg, <<>>)
        /\ root = last.arg

\* Nothing.of(5).chain(f) with f a function that throws: the receiver came
\* back and nothing was thrown.
C17_Witness ==
    /\ family = "Simple" /\ last.op = "chain"
    /\ last.arg = Nothing("of")
    /\ steps[Tip].f = "throwErr"
    /\ last.out = Ret(Nothing("of"), <<>>)

\* C18: the accessors never expose a halting payload.  For h a Fail or a
\* Nothing, h.result() raises a MonadError and h.getOrElse(d) returns d, for
\* every d; for c a Success or a Just with payload p, c.result() and
\* c.getOrElse(d) both return p.  No accessor invokes anything.
C18_Accessors ==
    /\ (family = "Simple" /\ last.op = "result") =>
          IF isHaltSMonad(last.arg)
          THEN Raised(last.out) /\ last.out.log = <<>>
          ELSE last.out = Ret(last.arg.p[1], <<>>)
    /\ (family = "Simple" /\ last.op = "getOrElse") =>
          IF isHaltSMonad(last.arg)
          THEN last.out = Ret(ArgValue(steps[Tip].f), <<>>)
          ELSE last.out = Ret(last.arg.p[1], <<>>)

\* Fail.of(5).getOrElse(9) returned 9, not the held 5.
C18_Witness ==
    /\ family = "Simple" /\ last.op = "getOrElse"
    /\ last.arg = Fail(Num(5), "of")
    /\ steps[Tip].f = "nine"
    /\ last.out = Ret(Num(9), <<>>)

\* A Fail whose result() raised.
C18_WitnessResult ==
    /\ family = "Simple" /\ last.op = "result"
    /\ last.arg.k = "Fail"
    /\ Raised(last.out)

\* The functions of the catalogue that return a plain value and never throw,
\* and the name of x => g(f(x)) for two of them.
PlainFns == {"inc", "dbl"}
ComposedFn(f, g) ==
    CASE f = "inc" /\ g = "inc" -> "incInc"
      [] f = "inc" /\ g = "dbl" -> "incDbl"
      [] f = "dbl" /\ g = "inc" -> "dblInc"
      [] f = "dbl" /\ g = "dbl" -> "dblDbl"

\* C19: functor law and identity of chain on continuing containers.  For c
\* a Success or a Just and f, g functions returning plain values,
\* c.map(f).map(g) is a container of c's variant whose payload is that of
\* c.map(x => g(f(x))); c.chain(x => Success.of(x)) on a Success c, and
\* c.chain(x => Just.of(x)) on a Just c, is a container of c's variant and
\* payload.
C19_FunctorLaw ==
    [][/\ (/\ family = "Simple" /\ last.op = "map" /\ isRightSMonad(last.arg)
           /\ steps[Tip].f \in PlainFns
           /\ last'.op = "map" /\ Len(steps') = Tip + 1
           /\ steps'[Tip + 1].f \in PlainFns) =>
             LET c == last.arg
                 whole == SimpleMap(c, ComposedFn(steps[Tip].f, steps'[Tip + 1].f))
             IN /\ last.out.t = "ret" /\ last'.arg = last.out.v
                /\ last'.out.t = "ret" /\ whole.t = "ret"
                /\ last'.out.v.k = c.k /\ whole.v.k = c.k
                /\ last'.out.v.p = whole.v.p
       /\ (/\ family' = "Simple" /\ last'.op = "chain"
           /\ \/ last'.arg.k = "Success" /\ steps'[Len(steps')].f = "ofSuccess"
              \/ last'.arg.k = "Just" /\ steps'[Len(steps')].f = "ofJust") =>
             /\ last'.out.t = "ret"
             /\ last'.out.v.k = last'.arg.k
             /\ last'.out.v.p = last'.arg.p]_vars

\* Just.of(5).map(x => x + 1).map(x => x * 2) is a Just holding 12.
C19_Witness ==
    /\ family = "Simple" /\ Tip = 2
    /\ steps = <<Step("map", "inc"), Step("map", "dbl")>>
    /\ last.op = "map" /\ last.arg = Just(Num(6), "lib")
    /\ last.out = Ret(Just(Num(12), "lib"), <<Call("dbl", Num(6))>>)

\* What the acting hook passes to f: Fail hands over its payload, Nothing
\* calls f without an argument.
HookArg(c) == IF c.k = "Fail" THEN c.p[1] ELSE Undefined

\* The hook `op` acts on container c: c is the halting variant of the
\* hook's family.
HookActs(op, c) ==
    \/ op \in {"onFailChain", "onFailMap"} /\ c.k = "Fail"
    \/ op \in {"onNothingChain", "onNothingMap"} /\ c.k = "Nothing"

HookOps == {"onFailChain", "onFailMap", "onNothingChain", "onNothingMap"}

\* C20: every simple container answers every recovery hook and acts only on
\* its own halting condition.  onFailChain / onFailMap act on a Fail,
\* onNothingChain / onNothingMap on a Nothing, invoking f exactly once; in
\* every other combination the hook returns the receiver itself and f is not
\* invoked.  When it acts and f returns r: on...Map raises a MonadError if r
\* is a simple container and otherwise returns the continuing counterpart
\* (Success for Fail, Just for Nothing) holding r; on...Chain returns r
\* itself if r is a simple container and raises a MonadError otherwise.
C20_RecoveryHooks ==
    (family = "Simple" /\ last.op \in HookOps) =>
        LET c == last.arg
            f == steps[Tip].f
            r == UserFn(f, HookArg(c))
        IN IF ~HookActs(last.op, c)
           THEN last.out = Ret(c, <<>>)
           ELSE /\ last.out.log = <<Call(f, HookArg(c))>>
                /\ r.t = "ret" =>
                     IF last.op \in {"onFailChain", "onNothingChain"}
                     THEN IF isSMonad(r.v) THEN last.out = Ret(r.v, r.log)
                          ELSE Raised(last.out)
                     ELSE IF isSMonad(r.v) THEN Raised(last.out)
                          ELSE /\ last.out.t = "ret"
                               /\ last.out.v.k =
                                    (IF c.k = "Fail" THEN "Success" ELSE "Just")
                               /\ last.out.v.p = <<r.v>>

\* Fail.of(5).onFailMap(x => Effect.of(() => x * 2)) in build "nomod1":
\* f returned an Effect, which is no simple container, and the hook raised.
C20_Diverges ==
    /\ family = "Simple" /\ last.op = "onFailMap"
    /\ variant = "nomod1"
    /\ last.arg = Fail(Num(5), "of")
    /\ steps[Tip].f = "toEffect"
    /\ last.out = Throw(MonadError("Fail.onFailMap"), <<Call("toEffect", Num(5))>>)

\* C21: ap takes the class of its result from the argument.  For a Success
\* or Just c and an argument a: c.ap(a) raises a MonadError, invoking
\* nothing, when c does not hold a function or a is not a simple container;
\* it returns a itself when a is a Fail or a Nothing; otherwise it invokes
\* the held function once on a's payload and returns a new container of a's
\* class holding the result, so Success.of(x => x + 1).ap(Just.of(5)) is
\* Just(6).  A Fail or Nothing receiver returns itself whatever a is.
C21_ApFollowsArgument ==
    (family = "Simple" /\ last.op = "ap") =>
        LET c == last.arg
            a == ApArg(steps[Tip].f)
        IN IF isHaltSMonad(c) THEN last.out = Ret(c, <<>>)
           ELSE IF c.p[1].k # "function" \/ ~isSMonad(a)
                THEN Raised(last.out) /\ last.out.log = <<>>
           ELSE IF isHaltSMonad(a) THEN last.out = Ret(a, <<>>)
           ELSE LET r == UserFn(c.p[1].m, a.p[1])
                IN /\ last.out.log = <<Call(c.p[1].m, a.p[1])>>
                   /\ r.t = "ret" =>
                        /\ last.out.t = "ret"
                        /\ last.out.v.k = a.k
                        /\ last.out.v.p = <<r.v>>
                        /\ last.out.v # a /\ last.out.v # c

\* Success.of(x => x + 1).ap(Just.of(5)) returned Just(6).
C21_Witness ==
    /\ family = "Simple" /\ last.op = "ap"
    /\ last.arg = Success(Fn("inc"), "of")
    /\ steps[Tip].f = "just5"
    /\ last.out = Ret(Just(Num(6), "lib"), <<Call("inc", Num(5))>>)

\* C22: Maybe.fromNullable(v, p) returns a Nothing for v = null and
\* v = undefined whatever p is, without invoking p; for any other v it
\* returns a Nothing when p is a function and p(v) is truthy, and Just(v)
\* otherwise, so fromNullable(0) is Just(0) and fromNullable("") is
\* Just("").
C22_FromNullable ==
    (last.op = "fromNullable") =>
        LET v == last.arg.p[1]
            treatAsNull == last.arg.p[2]
        IN IF v.k \in {"undefined", "null"}
           THEN last.out.t = "ret" /\ last.out.v.k = "Nothing" /\ last.out.log = <<>>
           ELSE IF treatAsNull.k = "function"
                THEN LET r == UserFn(treatAsNull.m, v)
                     IN /\ last.out.log = r.log
                        /\ r.t = "ret" =>
                             /\ last.out.t = "ret"
                             /\ IF Truthy(r.v) THEN last.out.v.k = "Nothing"
                                ELSE last.out.v = Just(v, "lib")
                ELSE last.out = Ret(Just(v, "lib"), <<>>)

\* Maybe.fromNullable(0, x => x === 0) in the module build: the predicate
\* was not invoked and a Just(0) came back.
C22_Diverges ==
    /\ last.op = "fromNullable" /\ variant = "module"
    /\ last.arg = Args(Num(0), Fn("isZero"))
    /\ last.out = Ret(Just(Num(0), "lib"), <<>>)

\* C23: Either.try(f) invokes f exactly once; it returns Success(r) when f
\* returns r and r is no promise, returns Fail(e) when f throws an ordinary
\* error e, and raises a MonadError, never returning a Fail that wraps it,
\* both when f returns a promise and when f itself throws a MonadError.
C23_Try ==
    (last.op = "try") =>
        LET f == last.arg.p[1].m
            r == Thunk(Val("function", 0, f, <<Undefined>>))
        IN /\ last.out.log = <<Call(f, Undefined)>>
           /\ IF r.t = "ret"
              THEN IF isPromise(r.v) THEN Raised(last.out)
                   ELSE last.out.t = "ret" /\ last.out.v = Success(r.v, "lib")
              ELSE IF isMonadError(r.v) THEN Raised(last.out)
                   ELSE last.out.t = "ret" /\ last.out.v = Fail(r.v, "lib")

\* Either.try(async () => undefined) in the second build returned a Fail
\* holding the MonadError.
C23_Diverges ==
    /\ last.op = "try" /\ variant = "nomod2"
    /\ last.arg = Args(Fn("async"), Undefined)
    /\ last.out = Ret(Fail(MonadError("Either.try"), "lib"),
                      <<Call("async", Undefined)>>)

\* C24: Effect.fold dispatches on the shape of the raw result of the
\* computation and invokes exactly one handler, once: onRight on the payload
\* of a Success or Just, onHalt on the payload of a Fail or Nothing, onValue
\* on a plain value; fold returns what that handler returns, and a handler
\* left out of the handlers object is the identity.  A raw result that is
\* an Effect or a State raises a MonadError and no handler is invoked.
C24_FoldDispatch ==
    (family = "Effect" /\ last.op = "fold") =>
        LET res == EffectValue(Tip)
            h == last.arg.p
        IN (res.t = "ret" /\ ~isPromise(res.v)) =>
             IF isLMonad(res.v)
             THEN Raised(last.out) /\ last.out.log = res.log
             ELSE LET pick == IF isRightSMonad(res.v) THEN <<h[1].m, res.v.p[1]>>
                              ELSE IF isHaltSMonad(res.v) THEN <<h[2].m, res.v.p[1]>>
                              ELSE <<h[3].m, res.v>>
                  IN IF pick[1] = ""
                     THEN last.out = Ret(pick[2], res.log)
                     ELSE /\ last.out.log = res.log \o <<Call(pick[1], pick[2])>>
                          /\ last.out.t = UserFn(pick[1], pick[2]).t
                          /\ last.out.v = UserFn(pick[1], pick[2]).v

\* Effect.of(() => Fail.of("e")).fold({onRight: inc, onValue: dbl}): onHalt
\* was left out, the Fail's payload came back and no handler was invoked.
C24_Witness ==
    /\ family = "Effect" /\ last.op = "fold"
    /\ Tip = 0 /\ root = LazyEffect("fail", Undefined)
    /\ last.arg = HandlersArg([onRight |-> "inc", onHalt |-> "", onValue |-> "dbl"])
    /\ last.out = Ret(Str, <<Call("fail", Undefined)>>)

\* A computation that returned an Effect: fold raised, no handler invoked.
C24_WitnessLazy ==
    /\ family = "Effect" /\ last.op = "fold"
    /\ Tip = 0 /\ root = LazyEffect("lazy", Undefined)
    /\ last.out = Throw(MonadError("Effect.fold"), <<Call("lazy", Undefined)>>)

\* Every function the session has passed so far returns a plain value or a
\* simple container with a plain payload (toEffect is the one function of
\* this session that returns a lazy container).
OnlySimpleFunctions == \A i \in 1..Tip : steps[i].f # "toEffect"

\* C25: no accidental nesting.  Starting from simple containers with plain
\* payloads and passing only functions that return plain values or simple
\* containers with plain payloads, every Success or Just reached through
\* map, chain, ap and the recovery hooks holds a payload that is not a
\* container, and result() on it returns a value that is not a container:
\* each operation keeps this or raises a MonadError.
C25_NoNesting ==
    (family = "Simple" /\ OnlySimpleFunctions) =>
        /\ isRightSMonad(root) => ~isMonad(root.p[1])
        /\ (last.op = "result" /\ last.out.t = "ret") => ~isMonad(last.out.v)

\* Success.of(x => Just.of(x)).ap(Just.of(5)) returned a Just holding a
\* Just.
C25_Diverges ==
    /\ family = "Simple" /\ last.op = "ap"
    /\ last.arg = Success(Fn("ofJust"), "of")
    /\ steps[Tip].f = "just5"
    /\ last.out = Ret(Just(Just(Num(5), "ofJust"), "lib"), <<Call("ofJust", Num(5))>>)
    /\ root = last.out.v

\* this._value() of instance i of the session's pipeline, evaluated with no
\* other call in flight as the (n + 1)-th invocation of the root.
RECURSIVE Alone(_, _)
Alone(n, i) ==
    IF i = 0 THEN Thunk(RootAt(n))
    ELSE IF steps[i].kind = "mapAsync"
         THEN EffectMapAsyncNew(Alone(n, i - 1), steps[i].f)
    ELSE EffectChainAsyncNew(Alone(n, i - 1), steps[i].f)

StartsWith(long, short) ==
    Len(short) <= Len(long) /\ SubSeq(long, 1, Len(short)) = short

\* The step functions among the invocations of a trace, by name, and the
\* step functions of instance `at`, in chain order.
IsStepCall(e) == e.m \in OMapFns \cup OChainFns
StepCalls(trace) ==
    LET sel == SelectSeq(trace, IsStepCall)
    IN [k \in 1..Len(sel) |-> sel[k].m]
StepChain(at) == [j \in 1..at |-> steps[j].f]
IsRootCall(e) == e.m \in ORoots
Finished(me) == me.lvl = me.at + 2

C26_WitnessBoth ==
    /\ Len(calls) = 2 /\ root.m = "count"
    /\ steps = <<Step("mapAsync", "inc"), Step("chainAsync", "toEffect")>>
    /\ calls[1].at = 2 /\ calls[2].at = 2
    /\ Finished(calls[1]) /\ Finished(calls[2])
    /\ calls[1].pend = Ret(Num(4), <<>>)
    /\ calls[2].pend = Ret(Num(6), <<>>)

RunOps == {"run", "runAsync"}

\* What the run recorded in `last` gives when the instance it was called on
\* is evaluated from its stored computation.
Rerun ==
    CASE family = "Effect" /\ last.op = "run" -> RunOf(last.at)
      [] family = "Effect" /\ last.op = "runAsync" -> RunAsyncOf(last.at)
      [] family = "State" /\ last.op = "run" -> StateRunOf(last.at, last.arg)
      [] family = "State" /\ last.op = "runAsync" ->
             StateRunAsyncOf(last.at, last.arg)

\* C27: composition never mutates the predecessor.  Every map / chain /
\* catch call, synchronous or asynchronous, on an Effect or a State makes
\* one more instance and leaves the root, the stored computation and the
\* queue of every instance that existed before as they were; and every
\* run or runAsync of an instance, whatever was derived from it or run
\* before, gives what its own stored computation gives and invokes the
\* functions of that computation again, root first: the receiver runs as
\* before the call, and nothing is memoized.
C27_PredecessorUntouched ==
    [][/\ steps' # steps =>
            /\ Len(steps') = Len(steps) + 1
            /\ root' = root
            /\ \A i \in 1..Tip : steps'[i] = steps[i]
            /\ \A i \in 1..Len(iterStore) : iterStore'[i] = iterStore[i]
       /\ last.op \in RunOps =>
            /\ last.out = Rerun
            /\ last.out.log # <<>>
            /\ last.out.log[1].m = root.m
       /\ (last.op \in RunOps /\ last'.op = last.op /\ last'.at = last.at
                              /\ last'.arg = last.arg) =>
            last'.out = last.out
      ]_vars

\* The receiver of a map call was run after the call and returned, while
\* the instance the call made gives another value.
C27_Witness ==
    /\ family = "Effect" /\ variant = "nomod2"
    /\ Tip = 2 /\ steps[2] = Step("map", "inc")
    /\ last.op = "run" /\ last.at = 1
    /\ last.out.t = "ret"
    /\ RunOf(2).t = "ret" /\ RunOf(2).v # last.out.v

\* this._value() of Effect instance i and this._run(state) of State
\* instance i as build b evaluates them, for pipelines of map and chain.
RECURSIVE EffectValueIn(_, _)
EffectValueIn(b, i) ==
    IF i = 0 THEN Thunk(root)
    ELSE LET up == EffectValueIn(b, i - 1)
             func == steps[i].f
         IN IF steps[i].kind = "map"
            THEN IF b = "module" THEN EffectMapNewModule(up, func)
                 ELSE EffectMapNew(up, func)
            ELSE IF b = "module" THEN EffectChainNewModule(up, func)
                 ELSE EffectChainNew(up, func)
RECURSIVE StateValueIn(_, _, _)
StateValueIn(b, i, state) ==
    IF i = 0 THEN Transition(root, state)
    ELSE LET initial == StateValueIn(b, i - 1, state)
             func == steps[i].f
         IN IF steps[i].kind = "map"
            THEN CASE b = "nomod1" -> StateMapNew(initial, func)
                   [] b = "nomod2" -> StateMapNew2(initial, func)
                   [] b = "module" -> StateMapNewModule(initial, func)
            ELSE IF b = "module" THEN StateChainNewModule(initial, func)
                 ELSE StateChainNew(initial, func)

\* run() / run(state) of the latest instance in build b.
RunIn(b) ==
    IF family = "Effect"
    THEN IF b = "module" THEN EffectRunModule(EffectValueIn(b, Tip))
         ELSE EffectRun(EffectValueIn(b, Tip))
    ELSE IF b = "module" THEN StateRunModule(StateValueIn(b, Tip, last.arg))
         ELSE StateRun(StateValueIn(b, Tip, last.arg))

\* The same value, or a contract violation in both, or the same error.
SameOutcome(r, q) ==
    /\ r.t = q.t
    /\ r.t = "ret" => r.v = q.v
    /\ r.t = "throw" => \/ isMonadError(r.v) /\ isMonadError(q.v)
                        \/ r.v = q.v

\* The pipeline uses only operations every build defines.
InAllBuilds == \A i \in 1..Tip : steps[i].kind \in {"map", "chain"}
\* No function of the pipeline returns a promise or a container whose
\* computation does.
PromiseFree ==
    /\ root.m # "async"
    /\ \A i \in 1..Tip :
          steps[i].f \notin {"toPromise", "toEffectAsync", "toStateAsync"}

\* C28 as stated: the three builds implement the same logic.  For a
\* pipeline of map and chain steps on an Effect or a State in which no
\* function returns a promise, run gives in every build the outcome it
\* gives in the build of the session: the same value, or a contract
\* violation in all three.
C28_BuildsAgree ==
    (/\ family \in {"Effect", "State"} /\ last.op = "run"
     /\ InAllBuilds /\ PromiseFree) =>
        \A b \in Variants : SameOutcome(RunIn(b), last.out)

\* State.of(s => [0 + 2, s * 10]).map(x => Just.of(x + 3)).run(1) returned
\* [Just(5), 10] in the first build and raises a MonadError in the other
\* two.
C28_Diverges ==
    /\ family = "State" /\ variant = "nomod1" /\ last.op = "run"
    /\ root = LazyState("step", Num(0))
    /\ steps = <<Step("map", "toJust")>>
    /\ last.arg = Num(1)
    /\ last.out.t = "ret"
    /\ last.out.v = Pair(Just(Num(5), "toJust"), Num(10))
    /\ RunIn("nomod2").t = "throw" /\ isMonadError(RunIn("nomod2").v)
    /\ RunIn("module").t = "throw" /\ isMonadError(RunIn("module").v)

\* The queued functions among the invocations of a log, by name, and the
\* functions of a queue, in order.
IsIterCall(e) == e.m \in IMapFns \cup IChainFns
IterCalls(log) ==
    LET sel == SelectSeq(log, IsIterCall)
    IN [k \in 1..Len(sel) |-> sel[k].m]
QueueFns(store) == [k \in 1..Len(store) |-> store[k][1]]

\* C29: runIter clears the queue on failure too.  When runIter(state,
\* clear) ends by raising - a contract violation, or an ordinary error
\* thrown by the root transition or by a queued step - the queue of the
\* instance is empty afterwards if clear is true and unchanged if clear is
\* false, and the functions invoked are the queued ones up to the failing
\* one, in order: those queued after it were never invoked.
C29_RunIterClearsOnFailure ==
    [][\A state \in ThreadStates, clear \in BOOLEAN :
          (State_runIter(state, clear) /\ last'.out.t = "throw") =>
             /\ clear => iterStore'[Tip + 1] = <<>>
             /\ ~clear => iterStore'[Tip + 1] = iterStore[Tip + 1]
             /\ StartsWith(QueueFns(iterStore[Tip + 1]),
                           IterCalls(last'.out.log))
      ]_vars

\* runIter raised the error thrown by the first queued function and the
\* queue is empty afterwards.
C29_Witness ==
    /\ family = "State" /\ Tip = 0 /\ last.op = "runIter"
    /\ last.out = Throw(Error("boom"), <<Call("step", last.arg),
                                         Call("throwErr", Num(2))>>)
    /\ iterStore[1] = <<>>

\* runIter(state, false) raised the error thrown by the first queued
\* function: the queue still holds both entries and the second function
\* was not invoked.
C29_WitnessKept ==
    /\ family = "State" /\ Tip = 0 /\ last.op = "runIter"
    /\ iterStore[1] = <<<<"throwErr", "m">>, <<"inc", "m">>>>
    /\ last.out = Throw(Error("boom"), <<Call("step", last.arg),
                                         Call("throwErr", Num(2))>>)

\* Step j of the pipeline threw an ordinary error of its own: what was
\* upstream of it returned.
ThrowsAt(j) ==
    /\ EffectValue(j - 1).t = "ret"
    /\ EffectValue(j).t = "throw"
    /\ ~isMonadError(EffectValue(j).v)

\* C30: catch treats halting containers as data and covers only what is
\* upstream of it.  When the computation upstream of Effect.catch(f)
\* returns a halting simple container without throwing, f is not invoked
\* and that container is passed on unchanged; and an ordinary error thrown
\* by a step placed after catch(f) is not passed to f, and with no further
\* catch after that step it reaches the caller of run.
C30_CatchScope ==
    (family = "Effect" /\ last.op = "run" /\ SyncPipeline) =>
        \A i \in 1..Tip :
            steps[i].kind = "catch" =>
                LET up == EffectValue(i - 1)
                IN /\ (up.t = "ret" /\ isHaltSMonad(up.v)) => EffectValue(i) = up
                   /\ \A j \in (i + 1)..Tip :
                        ThrowsAt(j) =>
                          /\ CallsAfter(EffectValue(j - 1), EffectValue(j),
                                        steps[i].f) = {}
                          /\ (\A k \in (j + 1)..Tip : steps[k].kind # "catch")
                                => last.out = EffectValue(j)

\* The root returned a Fail, catch(f) passed it on without invoking f, and
\* run() returned it.
C30_Witness ==
    /\ family = "Effect" /\ last.op = "run"
    /\ root = LazyEffect("fail", Undefined)
    /\ steps = <<Step("catch", "toJust")>>
    /\ last.out = Ret(Fail(Str, "fail"), <<Call("fail", Undefined)>>)

\* The error thrown by the map step after catch(f) reached the caller of
\* run and f was not invoked.
C30_WitnessDownstream ==
    /\ family = "Effect" /\ last.op = "run"
    /\ root = LazyEffect("five", Undefined)
    /\ steps = <<Step("catch", "toJust"), Step("map", "throwErr")>>
    /\ last.out = Throw(Error("boom"), <<Call("five", Undefined),
                                         Call("throwErr", Num(5))>>)

==========================================================================
